---- MODULE Spec2Model ----
(***************************************************************************)
(* The leaderboard stream processor (src/src/processor/                    *)
(* leaderboard_processor.py): the poll / process / commit loop of          *)
(* run_processor, process_event with its dedup ledger, and the three       *)
(* handlers, each Redis call one atomic step.                              *)
(*                                                                         *)
(* Conventions.  An event is a function from field names to values; a key  *)
(* the JSON object lacks is a name outside its DOMAIN.  Event ids are      *)
(* opaque (uuid strings in the producer); they are numbered here, and 0    *)
(* stands for the falsy id (None, "").  Timestamps are numbered too.       *)
(***************************************************************************)
EXTENDS Integers, Sequences, FiniteSets, TLC

\* ------------------------------------------------------------------ bounds
\* Longest log drawn by Init in the single-instance specifications.
MaxLog == 4
\* Most messages of one partition that one poll returns.
MaxBatch == 2
\* The number of achievement events in the log of SpecFeed.
MaxAch == 102
\* Most events in the two partitions together, and most crashes, in SpecCrash.
MaxCrashLog == 2
MaxCrashes == 1
\* Most events of one partition in SpecPar and SpecDup.
MaxParLog == 2
\* Longest log drawn by Init in SpecErr, SpecFail, SpecSkip, SpecDrain,
\* SpecRet and SpecAgree.
MaxErrLog == 3
\* Longest log drawn by Init in SpecEffect.
MaxEffectLog == 3
\* Longest log drawn by Init in SpecSnap.
MaxSnapLog == 21
\* Longest log drawn by Init in SpecRead, and the largest |top| requested.
MaxReadLog == 2
MaxTop == 2
\* The websocket clients of SpecServe, and the broadcaster cycles after the first.
MaxConns == 2
MaxCycles == 1

\* --------------------------------------------------------------- constants
\* ltrim(ACHIEVEMENTS_KEY, 0, 99): the feed keeps indexes 0..FeedStop.
FeedStop == 99
\* display_interval of run_processor: the leaderboard is printed every 20 events.
display_interval == 20

Instances == {1, 2}
Partitions == {0, 1}
OtherPartition(p) == 1 - p

VARIABLES
    log,          \* the topic: partition -> sequence of events
    committed,    \* the consumer group's committed offset of each partition
    owner,        \* partition -> the instance the group assigned it to
    leaderboard,  \* LEADERBOARD_KEY: member -> score (members present only)
    stats,        \* PLAYER_STATS_PREFIX + id: player id -> hash (field -> value)
    feed,         \* ACHIEVEMENTS_KEY: list, newest first
    processed,    \* PROCESSED_EVENTS_KEY: set of event ids
    proc,         \* instance -> its control state (see Fresh)
    applied,      \* history: the player_scored events whose zincrby has run
    iterated,     \* history: the messages for which process_event has returned
    observed,     \* history: <<>> or one snapshot an observer took of the store
    crashes,      \* history: one record per crash of the processor
    failed,       \* history: the messages during whose handling a store call raised
    request,      \* server.py: the REST request being served, and its response
    active_connections,  \* server.py: manager.active_connections, a list
    websockets,   \* server.py: connection -> its websocket_endpoint call and its peer
    broadcaster,  \* server.py: the leaderboard_broadcaster task (see Sleeping)
    now,          \* server.py: the clock datetime.utcnow() reads
    sent,         \* history: <<connection, message>> for every send_text that returned
    raised        \* history: the calls of server.py that raised ValueError

\* The websocket side of the API server, and the whole of it.
hub == <<active_connections, websockets, broadcaster, now, sent, raised>>
api == <<request, hub>>

vars == <<log, committed, owner, leaderboard, stats, feed, processed, proc,
          applied, iterated, observed, crashes, failed, api>>

\* What the steps of the processor never touch.
env == <<log, owner, observed, crashes, failed, api>>

store == <<leaderboard, stats, feed, processed>>

\* What the steps of the API server never touch.
engine == <<log, committed, owner, store, proc, applied, iterated, observed, crashes, failed>>

\* ------------------------------------------------------------------ events
Scored(id, pid, name, pts, act, ts) ==
    [event_id |-> id, event_type |-> "player_scored", timestamp |-> ts,
     player_id |-> pid, player_name |-> name, points |-> pts, action |-> act]

Joined(id, pid, name, game, ts) ==
    [event_id |-> id, event_type |-> "player_joined", timestamp |-> ts,
     player_id |-> pid, player_name |-> name, game_id |-> game]

Achievement(id, pid, name, ach, rarity, ts) ==
    [event_id |-> id, event_type |-> "achievement_unlocked", timestamp |-> ts,
     player_id |-> pid, player_name |-> name,
     achievement_name |-> ach, achievement_rarity |-> rarity]

PlayerIds == {"player_001", "player_002"}

E1 == Scored(1, "player_001", "NightHawk", 100, "kill", 1)
E2 == Scored(2, "player_001", "NightHawk", 50, "assist", 2)
E3 == Joined(3, "player_001", "NightHawk", "game_alpha", 3)
E4 == Scored(4, "player_002", "ShadowBlade", 150, "headshot", 4)
E5 == Achievement(5, "player_002", "ShadowBlade", "First Blood", "common", 5)
E6 == Joined(6, "player_002", "ShadowBlade", "game_beta", 6)

\* The events the single-instance specification draws its log from.
Universe == {E1, E2, E3, E4, E5, E6}

\* ------------------------------------------------------------- Redis calls
Min(a, b) == IF a < b THEN a ELSE b

Put(f, k, v) == IF k \in DOMAIN f THEN [f EXCEPT ![k] = v] ELSE f @@ (k :> v)

\* ZADD in place of ZINCRBY: the score is overwritten, not incremented.
ZincrbyOverwrites(z, d, member) == Put(z, member, d)

\* ZINCRBY key increment member
Zincrby(z, d, member) ==
    IF member \in DOMAIN z THEN [z EXCEPT ![member] = @ + d] ELSE z @@ (member :> d)

\* HSET in place of HINCRBY: the field is overwritten with the increment.
HincrbyOverwrites(h, field, d) == Put(h, field, d)

\* HINCRBY key field increment
Hincrby(h, field, d) ==
    IF field \in DOMAIN h THEN [h EXCEPT ![field] = @ + d] ELSE h @@ (field :> d)

\* HSET in place of HSETNX: an existing value is overwritten.
HsetnxOverwrites(h, field, v) == Put(h, field, v)

\* HSETNX key field value
Hsetnx(h, field, v) == IF field \in DOMAIN h THEN h ELSE h @@ (field :> v)

\* HSET key field value
Hset(h, field, v) == Put(h, field, v)

\* LPUSH key value
Lpush(l, v) == <<v>> \o l

\* A trim that keeps one entry too many.
LtrimKeepsOneMore(l, start, stop) == SubSeq(l, start + 1, Min(stop + 2, Len(l)))

\* LTRIM key start stop, for 0 <= start <= stop
Ltrim(l, start, stop) == SubSeq(l, start + 1, Min(stop + 1, Len(l)))

\* A ledger lookup that never finds the id.
is_event_processed_never(ledger, event_id) == FALSE

\* SISMEMBER on the ledger
is_event_processed(ledger, event_id) == event_id \in ledger

\* A ledger that keeps only the newest id.
mark_event_processed_expiring(ledger, event_id) == {event_id}

\* SADD, with no expiry
mark_event_processed(ledger, event_id) == ledger \cup {event_id}

\* --------------------------------------------------------- processor state
\* pc "poll" is the top of the while loop; running is the flag the signal
\* handler clears; caught is history: where the loop was when it did; open
\* holds the connections create_redis_client and create_consumer returned
\* and that were not closed since.
Fresh(position) ==
    [pc |-> "poll", batch |-> <<>>, idx |-> 1, position |-> position, ret |-> "none",
     running |-> TRUE, caught |-> "none", open |-> {"consumer", "redis_client"},
     last_leaderboard_display |-> 0]

Off == [pc |-> "off", batch |-> <<>>, idx |-> 1,
        position |-> [p \in Partitions |-> 0], ret |-> "none", running |-> FALSE,
        caught |-> "none", open |-> {}, last_leaderboard_display |-> 0]

\* A fetch that hands the messages of a partition over newest first.
MsgsReversed(p, from, n) == [k \in 1..n |-> [partition |-> p, offset |-> from + n - k]]

Msgs(p, from, n) == [k \in 1..n |-> [partition |-> p, offset |-> from + k - 1]]

EventOf(m) == log[m.partition][m.offset + 1]

Cur(i) == EventOf(proc[i].batch[proc[i].idx])

AtCommitPoint(i) == proc[i].pc = "next" /\ proc[i].idx > Len(proc[i].batch)

Goto(i, label) == proc' = [proc EXCEPT ![i].pc = label]

\* An exception leaves the loops of run_processor: "except Exception: raise"
\* and then the finally block, which closes the consumer and the store client.
Raise(i) == proc' = [proc EXCEPT ![i].pc = "stopped", ![i].open = {}]

\* process_event returns ok for the current message; the for loop moves on.
Return(i, ok) ==
    /\ proc' = [proc EXCEPT ![i].pc = "next", ![i].idx = @ + 1,
                            ![i].ret = IF ok THEN "true" ELSE "false"]
    /\ iterated' = iterated \cup {proc[i].batch[proc[i].idx]}

Truthy(e, k) == k \in DOMAIN e /\ e[k] # (IF k = "event_id" THEN 0 ELSE "")

Required(type) ==
    CASE type = "player_scored" -> {"player_id", "player_name", "points"}
      [] type = "player_joined" -> {"player_id", "player_name", "game_id"}
      [] type = "achievement_unlocked" ->
            {"player_name", "achievement_name", "achievement_rarity", "timestamp"}
      [] OTHER -> {}

FirstCall(type) ==
    CASE type = "player_scored" -> "zincrby"
      [] type = "player_joined" -> "hsetnx_total"
      [] type = "achievement_unlocked" -> "lpush"
      [] OTHER -> "unknown"

\* ---------------------------------------------------------------- the loop
\* An empty result is treated like a batch: the loop goes on to
\* consumer.commit().
PollAtCommitsEmpty(i, label) ==
    /\ proc[i].pc = label
    /\ \E n \in [Partitions -> 0..MaxBatch], first \in Partitions :
         /\ \A p \in Partitions :
               n[p] <= (IF owner[p] = i THEN Len(log[p]) - proc[i].position[p] ELSE 0)
         /\ LET second == OtherPartition(first)
                batch == Msgs(first, proc[i].position[first], n[first])
                           \o Msgs(second, proc[i].position[second], n[second])
            IN  proc' = [proc EXCEPT
                           ![i].pc = "next",
                           ![i].batch = batch,
                           ![i].idx = 1,
                           ![i].position = [p \in Partitions |-> @[p] + n[p]]]
    /\ UNCHANGED <<env, committed, store, applied, iterated>>

\* consumer.poll: up to MaxBatch messages of each owned partition, from the
\* instance's position, grouped by partition; an empty result polls again.
PollAt(i, label) ==
    /\ proc[i].pc = label
    /\ \E n \in [Partitions -> 0..MaxBatch], first \in Partitions :
         /\ \A p \in Partitions :
               n[p] <= (IF owner[p] = i THEN Len(log[p]) - proc[i].position[p] ELSE 0)
         /\ LET second == OtherPartition(first)
                batch == Msgs(first, proc[i].position[first], n[first])
                           \o Msgs(second, proc[i].position[second], n[second])
            IN  proc' = [proc EXCEPT
                           ![i].pc = IF batch = <<>> THEN "poll" ELSE "next",
                           ![i].batch = batch,
                           ![i].idx = 1,
                           ![i].position = [p \in Partitions |-> @[p] + n[p]]]
    /\ UNCHANGED <<env, committed, store, applied, iterated>>

\* One pass through "while running: message_batch = consumer.poll(...)" where
\* nothing can clear the flag between the test and the call.
Poll(i) == proc[i].running /\ PollAt(i, "poll")

\* The ledger is written before the handler runs (mark-then-mutate).
BeginEventMarksFirst(i) ==
    /\ proc[i].pc = "next"
    /\ proc[i].idx <= Len(proc[i].batch)
    /\ LET e == Cur(i) IN
         IF ~(Truthy(e, "event_id") /\ Truthy(e, "event_type"))
           THEN Return(i, FALSE) /\ UNCHANGED processed
         ELSE IF is_event_processed(processed, e.event_id)
           THEN Return(i, TRUE) /\ UNCHANGED processed
         ELSE IF FirstCall(e.event_type) = "unknown"
           THEN Return(i, FALSE) /\ UNCHANGED processed
         ELSE /\ processed' = mark_event_processed(processed, e.event_id)
              /\ IF ~(Required(e.event_type) \subseteq DOMAIN e)
                   THEN Return(i, FALSE)
                   ELSE Goto(i, FirstCall(e.event_type)) /\ UNCHANGED iterated
    /\ UNCHANGED <<env, committed, leaderboard, stats, feed, applied>>

\* An unknown event_type raises out of process_event and ends the loop.
BeginEventUnknownRaises(i) ==
    /\ proc[i].pc = "next"
    /\ proc[i].idx <= Len(proc[i].batch)
    /\ LET e == Cur(i) IN
         IF ~(Truthy(e, "event_id") /\ Truthy(e, "event_type")) THEN Return(i, FALSE)
         ELSE IF is_event_processed(processed, e.event_id) THEN Return(i, TRUE)
         ELSE IF FirstCall(e.event_type) = "unknown"
           THEN Goto(i, "stopped") /\ UNCHANGED iterated
         ELSE IF ~(Required(e.event_type) \subseteq DOMAIN e) THEN Return(i, FALSE)
         ELSE Goto(i, FirstCall(e.event_type)) /\ UNCHANGED iterated
    /\ UNCHANGED <<env, committed, store, applied>>

\* The ledger is consulted after the dispatch: a duplicate of an unknown
\* kind or without a field its handler reads returns False.
BeginEventDispatchesFirst(i) ==
    /\ proc[i].pc = "next"
    /\ proc[i].idx <= Len(proc[i].batch)
    /\ LET e == Cur(i) IN
         IF ~(Truthy(e, "event_id") /\ Truthy(e, "event_type")) THEN Return(i, FALSE)
         ELSE IF FirstCall(e.event_type) = "unknown" THEN Return(i, FALSE)
         ELSE IF ~(Required(e.event_type) \subseteq DOMAIN e) THEN Return(i, FALSE)
         ELSE IF is_event_processed(processed, e.event_id) THEN Return(i, TRUE)
         ELSE Goto(i, FirstCall(e.event_type)) /\ UNCHANGED iterated
    /\ UNCHANGED <<env, committed, store, applied>>

\* process_event up to the handler's first Redis call: validation, the
\* ledger lookup, the dispatch on event_type and the handler's leading
\* field reads (a missing key raises KeyError there, before any mutation).
BeginEvent(i) ==
    /\ proc[i].pc = "next"
    /\ proc[i].idx <= Len(proc[i].batch)
    /\ LET e == Cur(i) IN
         IF ~(Truthy(e, "event_id") /\ Truthy(e, "event_type")) THEN Return(i, FALSE)
         ELSE IF is_event_processed(processed, e.event_id) THEN Return(i, TRUE)
         ELSE IF FirstCall(e.event_type) = "unknown" THEN Return(i, FALSE)
         ELSE IF ~(Required(e.event_type) \subseteq DOMAIN e) THEN Return(i, FALSE)
         ELSE Goto(i, FirstCall(e.event_type)) /\ UNCHANGED iterated
    /\ UNCHANGED <<env, committed, store, applied>>

\* mark_event_processed, then return True.
Mark(i) ==
    /\ proc[i].pc = "mark"
    /\ processed' = mark_event_processed(processed, Cur(i).event_id)
    /\ Return(i, TRUE)
    /\ UNCHANGED <<env, committed, leaderboard, stats, feed, applied>>

\* events_processed of run_processor, for an instance that started at offset 0
\* and was not restarted: one for every message whose loop body has begun,
\* which is everything polled before the current batch plus the messages of
\* the batch up to the current one.  (A restarted instance counts from 0
\* again, so its counter is at most this value.)
events_processed(i) ==
    (proc[i].position[0] + proc[i].position[1]) - Len(proc[i].batch)
      + (IF proc[i].pc \in {"off", "poll", "call_poll", "next", "display", "stopped"}
           THEN proc[i].idx - 1 ELSE proc[i].idx)

\* "if events_processed - last_leaderboard_display >= display_interval"
DisplayDue(i) == events_processed(i) - proc[i].last_leaderboard_display >= display_interval

\* consumer.commit() moved into the for loop: it commits the consumer's
\* position, which is the end of the polled batch.
CommitInsideLoop(i) ==
    /\ proc[i].pc = "next"
    /\ \A k \in 1..Len(proc[i].batch) : owner[proc[i].batch[k].partition] = i
    /\ committed' = [p \in Partitions |->
                        IF owner[p] = i THEN proc[i].position[p] ELSE committed[p]]
    /\ proc' = IF proc[i].idx > Len(proc[i].batch)
                 THEN [proc EXCEPT ![i].pc = "poll", ![i].batch = <<>>, ![i].idx = 1]
                 ELSE proc
    /\ UNCHANGED <<env, store, applied, iterated>>

\* A commit that records nothing: the loop goes on to the next poll with
\* the group's offsets as they were.
CommitKeepsOffsets(i) ==
    /\ AtCommitPoint(i)
    /\ \A k \in 1..Len(proc[i].batch) : owner[proc[i].batch[k].partition] = i
    /\ proc' = [proc EXCEPT ![i].pc = "poll", ![i].batch = <<>>, ![i].idx = 1]
    /\ UNCHANGED <<env, committed, store, applied, iterated>>

\* consumer.commit() after the for loops: the positions of the owned
\* partitions become the group's committed offsets; the loop goes on to the
\* periodic display when display_interval events were counted since the last.
Commit(i) ==
    /\ AtCommitPoint(i)
    /\ \A k \in 1..Len(proc[i].batch) : owner[proc[i].batch[k].partition] = i
    /\ committed' = [p \in Partitions |->
                        IF owner[p] = i THEN proc[i].position[p] ELSE committed[p]]
    /\ proc' = [proc EXCEPT ![i].pc = IF DisplayDue(i) THEN "display" ELSE "poll",
                            ![i].batch = <<>>, ![i].idx = 1]
    /\ UNCHANGED <<env, store, applied, iterated>>

\* display_leaderboard(redis_client) of the loop: one zrevrange, printed;
\* last_leaderboard_display = events_processed.
display_leaderboard(i) ==
    /\ proc[i].pc = "display"
    /\ proc' = [proc EXCEPT ![i].pc = "poll",
                            ![i].last_leaderboard_display = events_processed(i)]
    /\ UNCHANGED <<env, committed, store, applied, iterated>>

\* The zrevrange of display_leaderboard raises: nothing in display_leaderboard
\* or around its call catches it, "except Exception: raise" ends the loop and
\* the finally block runs.  Its own display_leaderboard(top_n=10) comes before
\* the two close() calls, which are skipped when that read raises as well.
display_leaderboard_raises(i) ==
    /\ proc[i].pc = "display"
    /\ \E o \in {{}, proc[i].open} :
         proc' = [proc EXCEPT ![i].pc = "stopped", ![i].open = o]
    /\ UNCHANGED <<env, committed, store, applied, iterated>>

\* ------------------------------------------------- handle_player_scored
StatsKey(e) == e.player_id

\* The action of the event is not looked at.
ActionOfIgnored(e) == "unknown"

\* event.get("action", "unknown")
ActionOf(e) == IF "action" \in DOMAIN e THEN e.action ELSE "unknown"

SetStats(e, h) == stats' = [stats EXCEPT ![StatsKey(e)] = h]

ScoredZincrby(i) ==
    /\ proc[i].pc = "zincrby"
    /\ LET e == Cur(i) IN
         /\ leaderboard' = Zincrby(leaderboard, e.points, e.player_name)
         /\ applied' = applied \cup {e}
    /\ Goto(i, "hincrby_total")
    /\ UNCHANGED <<env, committed, stats, feed, processed, iterated>>

ScoredHincrbyTotal(i) ==
    /\ proc[i].pc = "hincrby_total"
    /\ LET e == Cur(i) IN
         SetStats(e, Hincrby(stats[StatsKey(e)], "total_score", e.points))
    /\ Goto(i, "hincrby_count")
    /\ UNCHANGED <<env, committed, leaderboard, feed, processed, applied, iterated>>

ScoredHincrbyCount(i) ==
    /\ proc[i].pc = "hincrby_count"
    /\ LET e == Cur(i) IN
         SetStats(e, Hincrby(stats[StatsKey(e)], "events_count", 1))
    /\ Goto(i, "hincrby_action")
    /\ UNCHANGED <<env, committed, leaderboard, feed, processed, applied, iterated>>

ScoredHincrbyAction(i) ==
    /\ proc[i].pc = "hincrby_action"
    /\ LET e == Cur(i) IN
         SetStats(e, Hincrby(stats[StatsKey(e)], "action:" \o ActionOf(e), 1))
    /\ Goto(i, "hset_name")
    /\ UNCHANGED <<env, committed, leaderboard, feed, processed, applied, iterated>>

\* A missing timestamp is passed over: the handler goes on to its end and
\* the event is marked.
ScoredHsetNameSkipsTimestamp(i) ==
    /\ proc[i].pc = "hset_name"
    /\ LET e == Cur(i) IN
         /\ SetStats(e, Hset(stats[StatsKey(e)], "player_name", e.player_name))
         /\ Goto(i, IF "timestamp" \in DOMAIN e THEN "hset_active" ELSE "zrevrank")
    /\ UNCHANGED <<env, committed, leaderboard, feed, processed, applied, iterated>>

\* hset player_name; evaluating event["timestamp"] for the next call raises
\* KeyError when the key is missing, and process_event returns False.
ScoredHsetName(i) ==
    /\ proc[i].pc = "hset_name"
    /\ LET e == Cur(i) IN
         /\ SetStats(e, Hset(stats[StatsKey(e)], "player_name", e.player_name))
         /\ IF "timestamp" \in DOMAIN e
              THEN Goto(i, "hset_active") /\ UNCHANGED iterated
              ELSE Return(i, FALSE)
    /\ UNCHANGED <<env, committed, leaderboard, feed, processed, applied>>

ScoredHsetActive(i) ==
    /\ proc[i].pc = "hset_active"
    /\ LET e == Cur(i) IN
         SetStats(e, Hset(stats[StatsKey(e)], "last_active", e.timestamp))
    /\ Goto(i, "zrevrank")
    /\ UNCHANGED <<env, committed, leaderboard, feed, processed, applied, iterated>>

\* zrevrank: a read whose result is only printed.
ScoredZrevrank(i) ==
    /\ proc[i].pc = "zrevrank"
    /\ Goto(i, "mark")
    /\ UNCHANGED <<env, committed, store, applied, iterated>>

handle_player_scored(i) ==
    \/ ScoredZincrby(i)
    \/ ScoredHincrbyTotal(i)
    \/ ScoredHincrbyCount(i)
    \/ ScoredHincrbyAction(i)
    \/ ScoredHsetName(i)
    \/ ScoredHsetActive(i)
    \/ ScoredZrevrank(i)

\* ------------------------------------------------- handle_player_joined
\* The join also enters the player in the leaderboard, with score 0.
JoinedHsetnxAddsRank(i) ==
    /\ proc[i].pc = "hsetnx_total"
    /\ LET e == Cur(i) IN
         /\ SetStats(e, Hsetnx(stats[StatsKey(e)], "total_score", 0))
         /\ leaderboard' = Zincrby(leaderboard, 0, e.player_name)
    /\ Goto(i, "hset_jname")
    /\ UNCHANGED <<env, committed, feed, processed, applied, iterated>>

JoinedHsetnx(i) ==
    /\ proc[i].pc = "hsetnx_total"
    /\ LET e == Cur(i) IN SetStats(e, Hsetnx(stats[StatsKey(e)], "total_score", 0))
    /\ Goto(i, "hset_jname")
    /\ UNCHANGED <<env, committed, leaderboard, feed, processed, applied, iterated>>

JoinedHsetName(i) ==
    /\ proc[i].pc = "hset_jname"
    /\ LET e == Cur(i) IN
         SetStats(e, Hset(stats[StatsKey(e)], "player_name", e.player_name))
    /\ Goto(i, "hincrby_joined")
    /\ UNCHANGED <<env, committed, leaderboard, feed, processed, applied, iterated>>

JoinedHincrby(i) ==
    /\ proc[i].pc = "hincrby_joined"
    /\ LET e == Cur(i) IN SetStats(e, Hincrby(stats[StatsKey(e)], "games_joined", 1))
    /\ Goto(i, "hset_game")
    /\ UNCHANGED <<env, committed, leaderboard, feed, processed, applied, iterated>>

JoinedHsetGame(i) ==
    /\ proc[i].pc = "hset_game"
    /\ LET e == Cur(i) IN SetStats(e, Hset(stats[StatsKey(e)], "last_game", e.game_id))
    /\ Goto(i, "mark")
    /\ UNCHANGED <<env, committed, leaderboard, feed, processed, applied, iterated>>

handle_player_joined(i) ==
    \/ JoinedHsetnx(i)
    \/ JoinedHsetName(i)
    \/ JoinedHincrby(i)
    \/ JoinedHsetGame(i)

\* ----------------------------------------------------- handle_achievement
\* json.dumps of the four fields, as the record it serialises.
AchievementRecord(e) ==
    [player |-> e.player_name, achievement |-> e.achievement_name,
     rarity |-> e.achievement_rarity, timestamp |-> e.timestamp]

AchievementLpush(i) ==
    /\ proc[i].pc = "lpush"
    /\ feed' = Lpush(feed, AchievementRecord(Cur(i)))
    /\ Goto(i, "ltrim")
    /\ UNCHANGED <<env, committed, leaderboard, stats, processed, applied, iterated>>

AchievementLtrim(i) ==
    /\ proc[i].pc = "ltrim"
    /\ feed' = Ltrim(feed, 0, FeedStop)
    /\ Goto(i, "mark")
    /\ UNCHANGED <<env, committed, leaderboard, stats, processed, applied, iterated>>

handle_achievement(i) ==
    \/ AchievementLpush(i)
    \/ AchievementLtrim(i)

\* One step of process_event for one instance.
process_event(i) ==
    \/ BeginEvent(i)
    \/ handle_player_scored(i)
    \/ handle_player_joined(i)
    \/ handle_achievement(i)
    \/ Mark(i)

\* One step of run_processor's loop.
run_processor(i) ==
    \/ Poll(i)
    \/ process_event(i)
    \/ Commit(i)

\* ------------------------------------------------------------ Spec
\* One instance owning partition 0, whose log is any sequence of at most
\* MaxLog events of Universe (a repeated event is a redelivered duplicate);
\* no crash.
\* The store of a fresh deployment, and empty histories.
EmptyAggregates ==
    /\ leaderboard = <<>>
    /\ stats = [pid \in PlayerIds |-> <<>>]
    /\ feed = <<>>
    /\ processed = {}
    /\ applied = {}
    /\ iterated = {}
    /\ observed = <<>>
    /\ crashes = <<>>
    /\ failed = {}

\* The API server is not running.
NoServer ==
    /\ request = [pc |-> "none"]
    /\ active_connections = <<>>
    /\ websockets = <<>>
    /\ broadcaster = [pc |-> "off"]
    /\ now = 0
    /\ sent = {}
    /\ raised = {}

EmptyStore == EmptyAggregates /\ NoServer

Range(f) == {f[x] : x \in DOMAIN f}

SeqsUpTo(S, n) == UNION {[1..k -> S] : k \in 0..n}

Init ==
    /\ \E l \in SeqsUpTo(Universe, MaxLog) : log = [p \in Partitions |-> IF p = 0 THEN l ELSE <<>>]
    /\ committed = [p \in Partitions |-> 0]
    /\ owner = [p \in Partitions |-> 1]
    /\ proc = [i \in Instances |-> IF i = 1 THEN Fresh(committed) ELSE Off]
    /\ EmptyStore

\* An observer reads the store between two process_event calls, once.
Boundary(i) == proc[i].pc \in {"poll", "next"}

Observe ==
    /\ observed = <<>>
    /\ crashes = <<>>
    /\ \A i \in Instances : proc[i].pc \in {"off", "poll", "next"}
    /\ observed' = <<[leaderboard |-> leaderboard, stats |-> stats, feed |-> feed,
                      processed |-> processed, iterated |-> iterated]>>
    /\ UNCHANGED <<log, committed, owner, store, proc, applied, iterated, crashes, failed, api>>

Next ==
    \/ run_processor(1)
    \/ Observe

Spec == Init /\ [][Next]_vars

\* ------------------------------------------------------------ SpecFeed
\* One instance, no crash; partition 0 holds MaxAch achievement events with
\* distinct ids, the k-th with timestamp k.
AchEvent(k) == Achievement(k, "player_001", "NightHawk", "First Blood", "common", k)

InitFeed ==
    /\ log = [p \in Partitions |-> IF p = 0 THEN [k \in 1..MaxAch |-> AchEvent(k)] ELSE <<>>]
    /\ committed = [p \in Partitions |-> 0]
    /\ owner = [p \in Partitions |-> 1]
    /\ proc = [i \in Instances |-> IF i = 1 THEN Fresh(committed) ELSE Off]
    /\ EmptyStore

NextFeed ==
    \/ Poll(1)
    \/ BeginEvent(1)
    \/ handle_achievement(1)
    \/ Mark(1)
    \/ Commit(1)
    \/ display_leaderboard(1)

SpecFeed == InitFeed /\ [][NextFeed]_vars

\* ----------------------------------------------------------- SpecCrash
\* One instance owning both partitions, which together hold at most
\* MaxCrashLog events, no event twice (a crash is what redelivers here; a
\* duplicate in the log is the case of Spec); the process may be killed between any two calls and is
\* then restarted: a new consumer resumes from the committed offsets, the
\* store and the ledger keep what was written.
EBad == [event_id |-> 8, event_type |-> "player_scored", player_id |-> "player_002",
         player_name |-> "ShadowBlade", points |-> 150, action |-> "headshot"]

CrashUniverse == {E1, E3, E5, EBad}

\* What a crash leaves for the history: where it hit and, for a crash
\* between the last process_event and consumer.commit(), the store then.
CrashRecord(i) ==
    IF AtCommitPoint(i)
      THEN [at |-> "commit", leaderboard |-> leaderboard, stats |-> stats, feed |-> feed,
            processed |-> processed, position |-> proc[i].position, committed |-> committed]
      ELSE [at |-> "earlier"]

\* The process is killed and started again: nothing of it survives but the
\* group's committed offsets, the store and the ledger.
CrashWith(i, record) ==
    /\ Len(crashes) < MaxCrashes
    /\ crashes' = Append(crashes, record)
    /\ proc' = [proc EXCEPT ![i] = Fresh(committed)]
    /\ UNCHANGED <<log, owner, observed, failed, api, committed, store, applied, iterated>>

Crash(i) ==
    /\ proc[i].pc \notin {"off", "poll"}
    /\ CrashWith(i, CrashRecord(i))

InitCrash ==
    /\ \E l0, l1 \in SeqsUpTo(CrashUniverse, MaxCrashLog) :
         /\ Len(l0) + Len(l1) <= MaxCrashLog
         /\ Cardinality(Range(l0) \cup Range(l1)) = Len(l0) + Len(l1)
         /\ log = [p \in Partitions |-> IF p = 0 THEN l0 ELSE l1]
    /\ committed = [p \in Partitions |-> 0]
    /\ owner = [p \in Partitions |-> 1]
    /\ proc = [i \in Instances |-> IF i = 1 THEN Fresh(committed) ELSE Off]
    /\ EmptyStore

NextCrash ==
    \/ run_processor(1)
    \/ Crash(1)

SpecCrash == InitCrash /\ [][NextCrash]_vars

\* ------------------------------------------------------------- SpecPar
\* Two instances of one consumer group sharing the store and the ledger:
\* instance 1 owns partition 0, instance 2 partition 1.  The logs hold
\* player_scored events of one player, no event twice; no crash.
E7 == Scored(7, "player_001", "NightHawk", 75, "flag_carry", 7)

ParUniverse == {E1, E2, E7}

InitPar ==
    /\ \E l0, l1 \in SeqsUpTo(ParUniverse, MaxParLog) :
         /\ Cardinality(Range(l0) \cup Range(l1)) = Len(l0) + Len(l1)
         /\ log = [p \in Partitions |-> IF p = 0 THEN l0 ELSE l1]
    /\ committed = [p \in Partitions |-> 0]
    /\ owner = [p \in Partitions |-> p + 1]
    /\ proc = [i \in Instances |-> Fresh(committed)]
    /\ EmptyStore

NextPar ==
    \E i \in Instances :
      \/ Poll(i)
      \/ BeginEvent(i)
      \/ handle_player_scored(i)
      \/ Mark(i)
      \/ Commit(i)

SpecPar == InitPar /\ [][NextPar]_vars

\* ------------------------------------------------------------- SpecDup
\* Two instances of one consumer group; instance 1 owns both partitions
\* until the group rebalances a partition to instance 2, which then fetches
\* it from the committed offset while instance 1 may still be working on a
\* batch it polled before (the "Kafka rebalancing" redelivery of
\* is_event_processed's docstring).  Partition 0 holds the events.
Rebalance(p) ==
    /\ owner[p] = 1
    /\ owner' = [owner EXCEPT ![p] = 2]
    /\ proc' = [proc EXCEPT ![2].position[p] = committed[p]]
    /\ UNCHANGED <<log, observed, crashes, failed, api, committed, store, applied, iterated>>

\* consumer.commit() by an instance that lost a partition of its batch: the
\* group has rebalanced, commit raises CommitFailedError, run_processor
\* re-raises it and the process ends.
CommitFailed(i) ==
    /\ AtCommitPoint(i)
    /\ \E k \in 1..Len(proc[i].batch) : owner[proc[i].batch[k].partition] # i
    /\ Raise(i)
    /\ UNCHANGED <<env, committed, store, applied, iterated>>

InitDup ==
    /\ \E l0 \in SeqsUpTo({E1, E2}, MaxParLog) :
         /\ Cardinality(Range(l0)) = Len(l0)
         /\ log = [p \in Partitions |-> IF p = 0 THEN l0 ELSE <<>>]
    /\ committed = [p \in Partitions |-> 0]
    /\ owner = [p \in Partitions |-> 1]
    /\ proc = [i \in Instances |-> Fresh(committed)]
    /\ EmptyStore

NextDup ==
    \/ \E i \in Instances :
         \/ Poll(i)
         \/ BeginEvent(i)
         \/ handle_player_scored(i)
         \/ Mark(i)
         \/ Commit(i)
         \/ CommitFailed(i)
    \/ \E p \in Partitions : Rebalance(p)

SpecDup == InitDup /\ [][NextDup]_vars

\* ------------------------------------------------------------- SpecErr
\* One instance, no crash, store and log calls that always succeed;
\* partition 0 holds at most MaxErrLog events drawn from one well-formed
\* event and events process_event rejects: an unknown event_type, no
\* event_id, no event_type, and player_scored events without points (KeyError
\* at line 226) or without timestamp (KeyError at line 239).
EUnknown == [event_id |-> 9, event_type |-> "player_left", timestamp |-> 9,
             player_id |-> "player_001", player_name |-> "NightHawk"]

ENoId == [event_type |-> "player_scored", timestamp |-> 10, player_id |-> "player_001",
          player_name |-> "NightHawk", points |-> 100, action |-> "kill"]

ENoType == [event_id |-> 11, timestamp |-> 11, player_id |-> "player_001",
            player_name |-> "NightHawk", points |-> 100, action |-> "kill"]

ENoPoints == [event_id |-> 12, event_type |-> "player_scored", timestamp |-> 12,
              player_id |-> "player_001", player_name |-> "NightHawk", action |-> "kill"]

ErrUniverse == {E1, EUnknown, ENoId, ENoType, ENoPoints, EBad}

InitErr ==
    /\ \E l \in SeqsUpTo(ErrUniverse, MaxErrLog) :
         log = [p \in Partitions |-> IF p = 0 THEN l ELSE <<>>]
    /\ committed = [p \in Partitions |-> 0]
    /\ owner = [p \in Partitions |-> 1]
    /\ proc = [i \in Instances |-> IF i = 1 THEN Fresh(committed) ELSE Off]
    /\ EmptyStore

NextErr ==
    \/ Poll(1)
    \/ BeginEvent(1)
    \/ handle_player_scored(1)
    \/ Mark(1)
    \/ Commit(1)

SpecErr == InitErr /\ [][NextErr]_vars

\* The process keeps running and poll returns the messages that are there.
SpecErrLive == SpecErr /\ WF_vars(NextErr)

\* ------------------------------------------------------------ SpecFail
\* One instance, no crash; any call to the store, the ledger or the log
\* service may raise (redis.ConnectionError, a Kafka error).  Partition 0
\* holds at most MaxErrLog events drawn from two well-formed player_scored
\* events and the two invalid ones.
HandlerPcs ==
    {"zincrby", "hincrby_total", "hincrby_count", "hincrby_action", "hset_name",
     "hset_active", "zrevrank"}

\* A call inside process_event's try block raises (a handler's call or the
\* sadd of mark_event_processed): "except Exception" returns False.
StoreFails(i) ==
    /\ proc[i].pc \in HandlerPcs \cup {"mark"}
    /\ failed' = failed \cup {proc[i].batch[proc[i].idx]}
    /\ Return(i, FALSE)
    /\ UNCHANGED <<log, owner, observed, crashes, api, committed, store, applied>>

\* The ledger is consulted for every event, an invalid one included.
LedgerFailsBeforeValidation(i) ==
    /\ proc[i].pc = "next"
    /\ proc[i].idx <= Len(proc[i].batch)
    /\ Goto(i, "stopped")
    /\ UNCHANGED <<env, committed, store, applied, iterated>>

\* The sismember of is_event_processed raises: the call is outside the try
\* block, the exception leaves process_event and the loops, run_processor
\* re-raises it after closing the connections.
LedgerFails(i) ==
    /\ proc[i].pc = "next"
    /\ proc[i].idx <= Len(proc[i].batch)
    /\ Truthy(Cur(i), "event_id") /\ Truthy(Cur(i), "event_type")
    /\ Raise(i)
    /\ UNCHANGED <<env, committed, store, applied, iterated>>

\* consumer.commit() raises although the instance owns its partitions (the
\* log service does not answer): run_processor re-raises.
CommitUnavailable(i) ==
    /\ AtCommitPoint(i)
    /\ \A k \in 1..Len(proc[i].batch) : owner[proc[i].batch[k].partition] = i
    /\ Raise(i)
    /\ UNCHANGED <<env, committed, store, applied, iterated>>

FailUniverse == {E1, E2, ENoId, ENoType}

InitFail ==
    /\ \E l \in SeqsUpTo(FailUniverse, MaxErrLog) :
         log = [p \in Partitions |-> IF p = 0 THEN l ELSE <<>>]
    /\ committed = [p \in Partitions |-> 0]
    /\ owner = [p \in Partitions |-> 1]
    /\ proc = [i \in Instances |-> IF i = 1 THEN Fresh(committed) ELSE Off]
    /\ EmptyStore

NextFail ==
    \/ Poll(1)
    \/ BeginEvent(1)
    \/ handle_player_scored(1)
    \/ Mark(1)
    \/ Commit(1)
    \/ StoreFails(1)
    \/ LedgerFails(1)
    \/ CommitUnavailable(1)

SpecFail == InitFail /\ [][NextFail]_vars

\* ----------------------------------------------------------- SpecDrain
\* One instance, no crash, calls that succeed; SIGINT or SIGTERM may arrive
\* between any two steps, so the test of "while running" and the call of
\* consumer.poll are two steps here.  Partition 0 holds at most MaxErrLog
\* player_scored events, no event twice.

\* The handler raises instead of clearing the flag (what SIGINT does without
\* a handler): the loop is left at once.
signal_handler_raises(i) ==
    /\ proc[i].pc \notin {"off", "stopped"}
    /\ proc[i].running
    /\ proc' = [proc EXCEPT ![i].running = FALSE, ![i].caught = proc[i].pc,
                            ![i].pc = "stopped"]
    /\ UNCHANGED <<env, committed, store, applied, iterated>>

\* signal_handler: running = False, wherever the loop is.
signal_handler(i) ==
    /\ proc[i].pc \notin {"off", "stopped"}
    /\ proc[i].running
    /\ proc' = [proc EXCEPT ![i].running = FALSE, ![i].caught = proc[i].pc]
    /\ UNCHANGED <<env, committed, store, applied, iterated>>

\* "while running" with the flag set: the loop body is entered.
WhileRunning(i) ==
    /\ proc[i].pc = "poll"
    /\ proc[i].running
    /\ Goto(i, "call_poll")
    /\ UNCHANGED <<env, committed, store, applied, iterated>>

\* The loop is left and the connections stay as they are.
WhileStoppedLeavesOpen(i) ==
    /\ proc[i].pc = "poll"
    /\ ~proc[i].running
    /\ Goto(i, "stopped")
    /\ UNCHANGED <<env, committed, store, applied, iterated>>

\* "while running" with the flag cleared: the loop is left; the finally
\* block reads the leaderboard for the last display and closes the consumer
\* and the store client.
WhileStopped(i) ==
    /\ proc[i].pc = "poll"
    /\ ~proc[i].running
    /\ proc' = [proc EXCEPT ![i].pc = "stopped", ![i].open = {}]
    /\ UNCHANGED <<env, committed, store, applied, iterated>>

\* consumer.poll(timeout_ms=1000), called after the test has passed.
PollCall(i) == PollAt(i, "call_poll")

DrainUniverse == {E1, E2, E7}

InitDrain ==
    /\ \E l \in SeqsUpTo(DrainUniverse, MaxErrLog) :
         /\ Cardinality(Range(l)) = Len(l)
         /\ log = [p \in Partitions |-> IF p = 0 THEN l ELSE <<>>]
    /\ committed = [p \in Partitions |-> 0]
    /\ owner = [p \in Partitions |-> 1]
    /\ proc = [i \in Instances |-> IF i = 1 THEN Fresh(committed) ELSE Off]
    /\ EmptyStore

NextDrain ==
    \/ signal_handler(1)
    \/ WhileRunning(1)
    \/ WhileStopped(1)
    \/ PollCall(1)
    \/ BeginEvent(1)
    \/ handle_player_scored(1)
    \/ Mark(1)
    \/ Commit(1)

SpecDrain == InitDrain /\ [][NextDrain]_vars

LoopDrain ==
    \/ WhileRunning(1)
    \/ WhileStopped(1)
    \/ PollCall(1)
    \/ BeginEvent(1)
    \/ handle_player_scored(1)
    \/ Mark(1)
    \/ Commit(1)

\* The process keeps running and every call returns, the pending poll
\* within its timeout; signals are not fair.
SpecDrainLive == SpecDrain /\ WF_vars(LoopDrain)

\* ---------------------------------------------------------- SpecWindow
\* One instance owning partition 0, which holds at most MaxCrashLog events,
\* no event twice, drawn from two well-formed player_scored events of one
\* player, the timestamp-less one of another and one of an unknown kind.  The
\* process may be killed between any two calls, at most MaxCrashes times, and
\* each kill notes whether it fell between the zincrby of an event and its
\* mark_event_processed.
WindowPcs == (HandlerPcs \ {"zincrby"}) \cup {"mark"}

WindowRecord(i) ==
    IF proc[i].pc \in WindowPcs
      THEN [at |-> "window", event |-> Cur(i)]
      ELSE [at |-> "outside"]

CrashNoted(i) ==
    /\ proc[i].pc \notin {"off", "poll"}
    /\ CrashWith(i, WindowRecord(i))

WindowUniverse == {E1, E2, EBad, EUnknown}

InitWindow ==
    /\ \E l \in SeqsUpTo(WindowUniverse, MaxCrashLog) :
         /\ Cardinality(Range(l)) = Len(l)
         /\ log = [p \in Partitions |-> IF p = 0 THEN l ELSE <<>>]
    /\ committed = [p \in Partitions |-> 0]
    /\ owner = [p \in Partitions |-> 1]
    /\ proc = [i \in Instances |-> IF i = 1 THEN Fresh(committed) ELSE Off]
    /\ EmptyStore

LoopWindow ==
    \/ Poll(1)
    \/ BeginEvent(1)
    \/ handle_player_scored(1)
    \/ Mark(1)
    \/ Commit(1)

NextWindow ==
    \/ LoopWindow
    \/ CrashNoted(1)

SpecWindow == InitWindow /\ [][NextWindow]_vars

\* The restarted process keeps running and poll returns the messages that
\* are there; kills are not fair, and there are at most MaxCrashes of them.
SpecWindowLive == SpecWindow /\ WF_vars(LoopWindow)

\* ------------------------------------------------------------ SpecSkip
\* One instance, no crash, calls that succeed; partition 0 holds at most
\* MaxErrLog events drawn, with repetition, from two well-formed
\* player_scored events and two events that carry the id of the first with
\* another kind and payload.
EDupUnknown == [event_id |-> 1, event_type |-> "player_left", timestamp |-> 13,
                player_id |-> "player_002", player_name |-> "ShadowBlade"]

EDupNoPoints == [event_id |-> 1, event_type |-> "player_scored", timestamp |-> 14,
                 player_id |-> "player_002", player_name |-> "ShadowBlade",
                 action |-> "revive"]

SkipUniverse == {E1, E2, EDupUnknown, EDupNoPoints}

InitSkip ==
    /\ \E l \in SeqsUpTo(SkipUniverse, MaxErrLog) :
         log = [p \in Partitions |-> IF p = 0 THEN l ELSE <<>>]
    /\ committed = [p \in Partitions |-> 0]
    /\ owner = [p \in Partitions |-> 1]
    /\ proc = [i \in Instances |-> IF i = 1 THEN Fresh(committed) ELSE Off]
    /\ EmptyStore

NextSkip ==
    \/ Poll(1)
    \/ BeginEvent(1)
    \/ handle_player_scored(1)
    \/ Mark(1)
    \/ Commit(1)

SpecSkip == InitSkip /\ [][NextSkip]_vars

\* ---------------------------------------------------------- SpecEffect
\* Spec with logs of at most MaxEffectLog events: one crash-free instance
\* and an observer who reads the store once between two process_event calls.
InitEffect ==
    /\ \E l \in SeqsUpTo(Universe, MaxEffectLog) :
         log = [p \in Partitions |-> IF p = 0 THEN l ELSE <<>>]
    /\ committed = [p \in Partitions |-> 0]
    /\ owner = [p \in Partitions |-> 1]
    /\ proc = [i \in Instances |-> IF i = 1 THEN Fresh(committed) ELSE Off]
    /\ EmptyStore

SpecEffect == InitEffect /\ [][Next]_vars

\* ------------------------------------------------------------ SpecSnap
\* One instance, no crash; partition 0 holds up to MaxSnapLog events, two
\* events of SnapUniverse alternating (a repeated event is a redelivered
\* duplicate, counted by events_processed like any other message), so that
\* display_interval events are processed and the periodic display is due.
\* The display's read of the store returns or raises.
SnapUniverse == {E1, E2, EBad}

InitSnap ==
    /\ \E n \in 0..MaxSnapLog, a \in SnapUniverse, b \in SnapUniverse :
         log = [p \in Partitions |->
                  IF p = 0 THEN [k \in 1..n |-> IF k % 2 = 1 THEN a ELSE b] ELSE <<>>]
    /\ committed = [p \in Partitions |-> 0]
    /\ owner = [p \in Partitions |-> 1]
    /\ proc = [i \in Instances |-> IF i = 1 THEN Fresh(committed) ELSE Off]
    /\ EmptyStore

NextSnap ==
    \/ Poll(1)
    \/ BeginEvent(1)
    \/ handle_player_scored(1)
    \/ Mark(1)
    \/ Commit(1)
    \/ display_leaderboard(1)
    \/ display_leaderboard_raises(1)

SpecSnap == InitSnap /\ [][NextSnap]_vars

\* ------------------------------------------------------------- SpecRet
\* One instance, no crash; the log mixes events of the three kinds with
\* events process_event rejects: one without event_id, one whose handler
\* raises, and two that carry the event_id of E1, one of unknown kind and one
\* without event_type.
EDupNoType == [event_id |-> 1, timestamp |-> 15, player_id |-> "player_002",
               player_name |-> "ShadowBlade", points |-> 150, action |-> "headshot"]

RetUniverse == {E1, E3, E5, EDupUnknown, EDupNoType, EBad, ENoId}

InitRet ==
    /\ \E l \in SeqsUpTo(RetUniverse, MaxErrLog) :
         log = [p \in Partitions |-> IF p = 0 THEN l ELSE <<>>]
    /\ committed = [p \in Partitions |-> 0]
    /\ owner = [p \in Partitions |-> 1]
    /\ proc = [i \in Instances |-> IF i = 1 THEN Fresh(committed) ELSE Off]
    /\ EmptyStore

NextRet == run_processor(1)

SpecRet == InitRet /\ [][NextRet]_vars

\* ----------------------------------------------------------- SpecAgree
\* One instance, no crash; scored and joined events of two players, each
\* player_id with one player_name of its own, one of the events without
\* timestamp; a store call of handle_player_scored or the sadd of the mark
\* may raise.
AgreeUniverse == {E1, E3, E4, EBad}

InitAgree ==
    /\ \E l \in SeqsUpTo(AgreeUniverse, MaxErrLog) :
         log = [p \in Partitions |-> IF p = 0 THEN l ELSE <<>>]
    /\ committed = [p \in Partitions |-> 0]
    /\ owner = [p \in Partitions |-> 1]
    /\ proc = [i \in Instances |-> IF i = 1 THEN Fresh(committed) ELSE Off]
    /\ EmptyStore

NextAgree ==
    \/ Poll(1)
    \/ BeginEvent(1)
    \/ handle_player_scored(1)
    \/ handle_player_joined(1)
    \/ Mark(1)
    \/ Commit(1)
    \/ StoreFails(1)

SpecAgree == InitAgree /\ [][NextAgree]_vars

\* ======================================================== server.py: reads
None == <<>>
Some(x) == <<x>>

\* dict.get(key, default) on a hash read from the store
Get(h, k, default) == IF k \in DOMAIN h THEN h[k] ELSE default

\* The store orders members of equal score by their names as byte strings:
\* "NightHawk" < "ShadowBlade" < "Unknown".
NameIndex(n) ==
    CASE n = "NightHawk" -> 1
      [] n = "ShadowBlade" -> 2
      [] OTHER -> 3

\* Member a comes before member b from the highest score down.
Above(z, a, b) == z[a] > z[b] \/ (z[a] = z[b] /\ NameIndex(a) > NameIndex(b))

RECURSIVE ZrevrangeAll(_)
\* ZREVRANGE key 0 -1 WITHSCORES: every <<member, score>>, highest first.
ZrevrangeAll(z) ==
    IF DOMAIN z = {} THEN <<>>
    ELSE LET top == CHOOSE a \in DOMAIN z : \A b \in DOMAIN z \ {a} : Above(z, a, b)
         IN  <<<<top, z[top]>>>> \o ZrevrangeAll([n \in DOMAIN z \ {top} |-> z[n]])

\* ZREVRANGE key start stop WITHSCORES: 0-based inclusive indexes, a negative
\* index counting from the end (-1 is the last member).
Zrevrange(z, start, stop) ==
    LET all == ZrevrangeAll(z)
        len == Len(all)
        s0 == IF start < 0 THEN start + len ELSE start
        e0 == IF stop < 0 THEN stop + len ELSE stop
        s1 == IF s0 < 0 THEN 0 ELSE s0
        e1 == IF e0 >= len THEN len - 1 ELSE e0
    IN  IF s1 > e1 \/ s1 >= len THEN <<>> ELSE SubSeq(all, s1 + 1, e1 + 1)

\* ZCARD key
Zcard(z) == Cardinality(DOMAIN z)

\* ZRANK in place of ZREVRANK: the 0-based rank from the lowest score up.
Zrank(z, member) ==
    IF member \in DOMAIN z
      THEN Some(Cardinality({n \in DOMAIN z \ {member} : Above(z, member, n)}))
      ELSE None

\* ZREVRANK key member: the 0-based rank from the highest score down, or None.
Zrevrank(z, member) ==
    IF member \in DOMAIN z
      THEN Some((CHOOSE k \in 1..Zcard(z) : ZrevrangeAll(z)[k][1] = member) - 1)
      ELSE None

\* HGETALL key: the hash, empty when the key does not exist.
Hgetall(s, pid) == IF pid \in DOMAIN s THEN s[pid] ELSE <<>>

\* The LeaderboardResponse fetch_leaderboard builds: rank = i + 1 for the i-th
\* pair of enumerate(leaders); int(score) of a score that is a whole number.
LeaderboardResponse(leaders, total, at) ==
    [updated_at |-> at,
     total_players |-> total,
     top_players |-> [i \in 1..Len(leaders) |->
                        [rank |-> i, player_name |-> leaders[i][1], score |-> leaders[i][2]]]]

\* The PlayerStats fetch_player_stats builds from the hash and the rank read.
PlayerStats(h, rank) ==
    [player_name |-> Get(h, "player_name", "Unknown"),
     total_score |-> Get(h, "total_score", 0),
     rank |-> IF rank # None THEN Some(rank[1] + 1) ELSE None,
     events_count |-> Get(h, "events_count", 0),
     games_joined |-> Get(h, "games_joined", 0)]

\* GET /api/leaderboard?top=...: get_leaderboard calls
\* fetch_leaderboard(top_n=min(top, 100)), which awaits zrevrange first.
get_leaderboard(top) ==
    /\ request.pc = "none"
    /\ request' = [pc |-> "zrevrange", op |-> "get_leaderboard", top |-> top,
                   top_n |-> Min(top, 100)]
    /\ UNCHANGED <<engine, hub>>

\* leaders = await r.zrevrange(LEADERBOARD_KEY, 0, top_n - 1, withscores=True)
FetchZrevrange ==
    /\ request.pc = "zrevrange"
    /\ request' = [request EXCEPT !.pc = "zcard"] @@
                    [leaders |-> Zrevrange(leaderboard, 0, request.top_n - 1)]
    /\ UNCHANGED <<engine, hub>>

\* total = await r.zcard(LEADERBOARD_KEY), and the response is built.
FetchZcard ==
    /\ request.pc = "zcard"
    /\ request' = [request EXCEPT !.pc = "done"] @@
                    [response |-> LeaderboardResponse(request.leaders, Zcard(leaderboard), now)]
    /\ UNCHANGED <<engine, hub>>

\* fetch_player_stats(player_id) is called and awaits hgetall.
fetch_player_stats(player_id) ==
    /\ request.pc = "none"
    /\ request' = [pc |-> "hgetall", op |-> "fetch_player_stats", player_id |-> player_id]
    /\ UNCHANGED <<engine, hub>>

\* stats = await r.hgetall(stats_key); "if not stats: return None".
PlayerHgetall ==
    /\ request.pc = "hgetall"
    /\ LET h == Hgetall(stats, request.player_id) IN
         request' = IF h = <<>>
                      THEN [request EXCEPT !.pc = "done"] @@ [response |-> None]
                      ELSE [request EXCEPT !.pc = "zrevrank"] @@ [stats |-> h]
    /\ UNCHANGED <<engine, hub>>

\* rank = await r.zrevrank(LEADERBOARD_KEY, player_name), and the PlayerStats
\* is returned.
PlayerZrevrank ==
    /\ request.pc = "zrevrank"
    /\ LET name == Get(request.stats, "player_name", "Unknown") IN
         request' = [request EXCEPT !.pc = "done"] @@
                      [response |-> Some(PlayerStats(request.stats, Zrevrank(leaderboard, name)))]
    /\ UNCHANGED <<engine, hub>>

\* ------------------------------------------------------------ SpecRead
\* The processor works through a log of at most MaxReadLog events while the
\* API serves one REST request, whose store reads fall anywhere between the
\* processor's store calls: the leaderboard with top in -MaxTop..MaxTop, or
\* the stats of a player id, known or not.
ReadUniverse == {E1, E2, E3, E4}

Tops == (0 - MaxTop)..MaxTop

RequestIds == PlayerIds \cup {"player_003"}

InitRead ==
    /\ \E l \in SeqsUpTo(ReadUniverse, MaxReadLog) :
         log = [p \in Partitions |-> IF p = 0 THEN l ELSE <<>>]
    /\ committed = [p \in Partitions |-> 0]
    /\ owner = [p \in Partitions |-> 1]
    /\ proc = [i \in Instances |-> IF i = 1 THEN Fresh(committed) ELSE Off]
    /\ EmptyStore

NextRead ==
    \/ Poll(1)
    \/ BeginEvent(1)
    \/ handle_player_scored(1)
    \/ handle_player_joined(1)
    \/ Mark(1)
    \/ Commit(1)
    \/ \E top \in Tops : get_leaderboard(top)
    \/ FetchZrevrange
    \/ FetchZcard
    \/ \E player_id \in RequestIds : fetch_player_stats(player_id)
    \/ PlayerHgetall
    \/ PlayerZrevrank

SpecRead == InitRead /\ [][NextRead]_vars

\* ==================================================== server.py: websockets
\* The websockets that connect to /ws.
Conns == 1..MaxConns

\* json.dumps: a string the value can be read back from, equal to the string
\* of another value only when the values are equal, and never equal to None.
Dumps(x) == <<"json", x>>

\* A websocket before its client connects.
Unconnected == [pc |-> "idle", peer |-> "open"]

\* The broadcaster at "await asyncio.sleep(UPDATE_INTERVAL)".
Sleeping(last) == [pc |-> "sleep", last_leaderboard |-> last]

\* list.remove(x): the first occurrence of x leaves the list.
Remove(list, x) ==
    LET k == CHOOSE j \in 1..Len(list) : list[j] = x /\ \A h \in 1..(j - 1) : list[h] # x
    IN  SubSeq(list, 1, k - 1) \o SubSeq(list, k + 1, Len(list))

RECURSIVE RemoveEach(_, _)
\* "for conn in disconnected: self.active_connections.remove(conn)": the
\* list that results, and whether every remove found its connection (the
\* first that does not raises ValueError and ends the loop).
RemoveEach(list, disconnected) ==
    IF disconnected = <<>> THEN [list |-> list, ok |-> TRUE]
    ELSE IF Head(disconnected) \in Range(list)
      THEN RemoveEach(Remove(list, Head(disconnected)), Tail(disconnected))
      ELSE [list |-> list, ok |-> FALSE]

\* A client opens /ws: websocket_endpoint runs up to "await websocket.accept()"
\* inside manager.connect.
websocket_endpoint(c) ==
    /\ websockets[c].pc = "idle"
    /\ websockets' = [websockets EXCEPT ![c].pc = "accept"]
    /\ UNCHANGED <<engine, request, active_connections, broadcaster, now, sent, raised>>

\* accept returns and manager.connect appends the websocket; the endpoint goes
\* on to fetch and send the initial data.  (For a client already gone accept
\* raises and the endpoint ends.)
Connect(c) ==
    /\ websockets[c].pc = "accept"
    /\ IF websockets[c].peer = "open"
         THEN /\ active_connections' = Append(active_connections, c)
              /\ websockets' = [websockets EXCEPT ![c].pc = "initial"]
         ELSE /\ websockets' = [websockets EXCEPT ![c].pc = "ended"]
              /\ UNCHANGED active_connections
    /\ UNCHANGED <<engine, request, broadcaster, now, sent, raised>>

\* "await websocket.send_json(...)" of the initial data, which is outside the
\* try block: it returns and the endpoint awaits receive_text, or it raises
\* for a client that is gone and the endpoint ends without manager.disconnect.
InitialData(c) ==
    /\ websockets[c].pc = "initial"
    /\ websockets' = [websockets EXCEPT
                        ![c].pc = IF websockets[c].peer = "open" THEN "receive" ELSE "ended"]
    /\ UNCHANGED <<engine, request, active_connections, broadcaster, now, sent, raised>>

\* The client of a websocket closes the connection.
PeerCloses(c) ==
    /\ websockets[c].pc \in {"accept", "initial", "receive"}
    /\ websockets[c].peer = "open"
    /\ websockets' = [websockets EXCEPT ![c].peer = "closed"]
    /\ UNCHANGED <<engine, request, active_connections, broadcaster, now, sent, raised>>

\* receive_text raises WebSocketDisconnect and the endpoint calls
\* manager.disconnect: active_connections.remove(websocket), which raises
\* ValueError when the websocket is not in the list.
disconnect(c) ==
    /\ websockets[c].pc = "receive"
    /\ websockets[c].peer = "closed"
    /\ websockets' = [websockets EXCEPT ![c].pc = "ended"]
    /\ IF c \in Range(active_connections)
         THEN active_connections' = Remove(active_connections, c) /\ UNCHANGED raised
         ELSE raised' = raised \cup {"disconnect"} /\ UNCHANGED active_connections
    /\ UNCHANGED <<engine, request, broadcaster, now, sent>>

\* leaderboard_broadcaster: fetch_leaderboard(top_n=10) awaits zrevrange.
BroadcasterZrevrange ==
    /\ broadcaster.pc = "zrevrange"
    /\ broadcaster' = [pc |-> "zcard", last_leaderboard |-> broadcaster.last_leaderboard,
                       leaders |-> Zrevrange(leaderboard, 0, 10 - 1)]
    /\ UNCHANGED <<engine, request, active_connections, websockets, now, sent, raised>>

\* fetch_leaderboard awaits zcard and returns the response, stamped with
\* datetime.utcnow(); fetch_recent_achievements is awaited next.
BroadcasterZcard ==
    /\ broadcaster.pc = "zcard"
    /\ broadcaster' = [pc |-> "lrange", last_leaderboard |-> broadcaster.last_leaderboard,
                       leaderboard |-> LeaderboardResponse(broadcaster.leaders,
                                                           Zcard(leaderboard), now)]
    /\ UNCHANGED <<engine, request, active_connections, websockets, now, sent, raised>>

\* lrange returns; current_state = json.dumps(leaderboard.model_dump()), the
\* whole response with its updated_at; "if current_state != last_leaderboard"
\* manager.broadcast is called, which returns at once without connections and
\* otherwise awaits send_text for the first of the list.
BroadcasterCompare ==
    /\ broadcaster.pc = "lrange"
    /\ LET current_state == Dumps(broadcaster.leaderboard) IN
         broadcaster' =
           IF current_state = broadcaster.last_leaderboard
             THEN Sleeping(broadcaster.last_leaderboard)
           ELSE IF active_connections = <<>> THEN Sleeping(current_state)
           ELSE [pc |-> "send", last_leaderboard |-> broadcaster.last_leaderboard,
                 leaderboard |-> broadcaster.leaderboard,
                 connection |-> active_connections[1], k |-> 1,
                 disconnected |-> <<>>, audience |-> active_connections]
    /\ UNCHANGED <<engine, request, active_connections, websockets, now, sent, raised>>

\* "await connection.send_text(message_json)" returns, or raises for a client
\* that is gone (the connection goes to disconnected).  The for loop takes the
\* next element of active_connections as the list is now, by position; when
\* there is none the cleanup loop runs, broadcast returns and
\* last_leaderboard = current_state, or the cleanup raises ValueError, which
\* leaderboard_broadcaster catches before it sleeps.
BroadcastSend ==
    /\ broadcaster.pc = "send"
    /\ LET c == broadcaster.connection
           ok == websockets[c].peer = "open"
           disconnected == IF ok THEN broadcaster.disconnected
                                 ELSE Append(broadcaster.disconnected, c)
           cleaned == RemoveEach(active_connections, disconnected)
       IN  /\ sent' = IF ok THEN sent \cup {<<c, broadcaster.leaderboard>>} ELSE sent
           /\ IF broadcaster.k < Len(active_connections)
                THEN /\ broadcaster' = [broadcaster EXCEPT
                                          !.connection = active_connections[broadcaster.k + 1],
                                          !.k = broadcaster.k + 1,
                                          !.disconnected = disconnected]
                     /\ UNCHANGED <<active_connections, raised>>
                ELSE /\ active_connections' = cleaned.list
                     /\ broadcaster' = Sleeping(IF cleaned.ok THEN Dumps(broadcaster.leaderboard)
                                                              ELSE broadcaster.last_leaderboard)
                     /\ raised' = IF cleaned.ok THEN raised ELSE raised \cup {"broadcast"}
    /\ UNCHANGED <<engine, request, websockets, now>>

\* asyncio.sleep(UPDATE_INTERVAL) returns, UPDATE_INTERVAL later.
BroadcasterWakes ==
    /\ broadcaster.pc = "sleep"
    /\ now < MaxCycles
    /\ now' = now + 1
    /\ broadcaster' = [pc |-> "zrevrange", last_leaderboard |-> broadcaster.last_leaderboard]
    /\ UNCHANGED <<engine, request, active_connections, websockets, sent, raised>>

leaderboard_broadcaster ==
    \/ BroadcasterZrevrange
    \/ BroadcasterZcard
    \/ BroadcasterCompare
    \/ BroadcastSend
    \/ BroadcasterWakes

\* ----------------------------------------------------------- SpecServe
\* The API server with its broadcaster task and MaxConns websocket clients,
\* which connect and go away at any time, for MaxCycles broadcaster cycles
\* after the first; beside it the processor applies a log that is empty or
\* holds E1.
InitServe ==
    /\ \E l \in {<<>>, <<E1>>} : log = [p \in Partitions |-> IF p = 0 THEN l ELSE <<>>]
    /\ committed = [p \in Partitions |-> 0]
    /\ owner = [p \in Partitions |-> 1]
    /\ proc = [i \in Instances |-> IF i = 1 THEN Fresh(committed) ELSE Off]
    /\ EmptyAggregates
    /\ request = [pc |-> "none"]
    /\ active_connections = <<>>
    /\ websockets = [c \in Conns |-> Unconnected]
    /\ broadcaster = [pc |-> "zrevrange", last_leaderboard |-> None]
    /\ now = 0
    /\ sent = {}
    /\ raised = {}

NextServe ==
    \/ Poll(1)
    \/ BeginEvent(1)
    \/ handle_player_scored(1)
    \/ Mark(1)
    \/ Commit(1)
    \/ leaderboard_broadcaster
    \/ \E c \in Conns :
         \/ websocket_endpoint(c)
         \/ Connect(c)
         \/ InitialData(c)
         \/ PeerCloses(c)
         \/ disconnect(c)

SpecServe == InitServe /\ [][NextServe]_vars

\* ================================================================ claims
Names == {"NightHawk", "ShadowBlade"}

Score(z, n) == IF n \in DOMAIN z THEN z[n] ELSE 0

Field(h, f) == IF f \in DOMAIN h THEN h[f] ELSE 0

Has(e, k) == k \in DOMAIN e

IsScored(e) ==
    /\ Has(e, "event_id") /\ Has(e, "event_type") /\ e.event_type = "player_scored"
    /\ {"player_id", "player_name", "points"} \subseteq DOMAIN e

RECURSIVE SumPoints(_)
\* The sum of the points of a set of events.
SumPoints(S) ==
    IF S = {} THEN 0
    ELSE LET e == CHOOSE x \in S : TRUE IN e.points + SumPoints(S \ {e})

RECURSIVE MsgPoints(_)
\* The sum of the points of a set of messages, each message counted.
MsgPoints(M) ==
    IF M = {} THEN 0
    ELSE LET m == CHOOSE x \in M : TRUE IN EventOf(m).points + MsgPoints(M \ {m})

EventsOf(M) == {EventOf(m) : m \in M}

ScoredFor(M, n) == {m \in M : IsScored(EventOf(m)) /\ EventOf(m).player_name = n}

ScoredBy(M, pid) == {m \in M : IsScored(EventOf(m)) /\ EventOf(m).player_id = pid}

\* C1: Idempotent replay.  Between two process_event calls of a crash-free
\* single instance, every name's leaderboard score is the sum of the points of
\* the distinct player_scored events passed to process_event so far, however
\* often each was passed, and every player's total_score and events_count
\* count each distinct event once; after Scored e1 (100), Scored e2 (50) and
\* e1 again for a player without a record the score is 150 and events_count 2.
C1_IdempotentReplay ==
    Boundary(1) =>
      /\ \A n \in Names :
           Score(leaderboard, n) = SumPoints(EventsOf(ScoredFor(iterated, n)))
      /\ \A pid \in PlayerIds :
           /\ Field(stats[pid], "total_score") = SumPoints(EventsOf(ScoredBy(iterated, pid)))
           /\ Field(stats[pid], "events_count") = Cardinality(EventsOf(ScoredBy(iterated, pid)))
      /\ (log[0] = <<E1, E2, E1>> /\ Cardinality(iterated) = 3) =>
           /\ leaderboard["NightHawk"] = 150
           /\ stats["player_001"].events_count = 2

\* The scenario of C1 has run: e1, e2 and e1 again have been processed.
C1_Witness ==
    /\ log[0] = <<E1, E2, E1>>
    /\ Cardinality(iterated) = 3
    /\ proc[1].ret = "true"
    /\ Boundary(1)

\* The messages processed since the observer's snapshot.
Since == iterated \ observed[1].iterated

DistinctNew(M) ==
    /\ \A m1, m2 \in M : m1 # m2 => EventOf(m1).event_id # EventOf(m2).event_id
    /\ \A m \in M : EventOf(m).event_id \notin observed[1].processed

\* C2: Additivity.  If the player_scored events processed for a player since
\* an observation have pairwise distinct ids, none of them in the ledger at
\* the observation, then whatever events of other players were processed in
\* between, the player's leaderboard score is the observed score plus the sum
\* of their points.
C2_Additivity ==
    (observed # <<>> /\ Boundary(1)) =>
      \A n \in Names :
        DistinctNew(ScoredFor(Since, n)) =>
          Score(leaderboard, n)
            = Score(observed[1].leaderboard, n) + MsgPoints(ScoredFor(Since, n))

\* Two scored events of NightHawk and an event of another player were
\* processed after an observation made in the middle of the run.
C2_Witness ==
    /\ observed # <<>>
    /\ Boundary(1)
    /\ observed[1].iterated # {}
    /\ DistinctNew(ScoredFor(Since, "NightHawk"))
    /\ Cardinality(ScoredFor(Since, "NightHawk")) >= 2
    /\ \E m \in Since : EventOf(m).player_name = "ShadowBlade"

JoinedPcs == {"hsetnx_total", "hset_jname", "hincrby_joined", "hset_game"}

\* C9: Join after score.  No step of handle_player_joined changes a
\* total_score that exists, and one that creates the field creates it as 0.
C9_JoinKeepsTotalScore ==
    [][\A i \in Instances : proc[i].pc \in JoinedPcs =>
         \A pid \in PlayerIds :
           IF "total_score" \in DOMAIN stats[pid]
             THEN /\ "total_score" \in DOMAIN stats'[pid]
                  /\ stats'[pid].total_score = stats[pid].total_score
             ELSE "total_score" \in DOMAIN stats'[pid] => stats'[pid].total_score = 0]_vars

\* handle_player_joined has run its hsetnx for a player who had scored.
C9_Witness ==
    /\ proc[1].pc = "hset_jname"
    /\ Field(stats[Cur(1).player_id], "total_score") > 0

FeedCap == FeedStop + 1

\* C10: Feed bound.  After k achievement events with distinct ids have been
\* applied, the feed holds the records of the min(k, 100) most recently
\* applied ones, newest first.
C10_FeedBound ==
    Boundary(1) =>
      LET k == Cardinality(iterated) IN
        /\ Len(feed) = Min(k, FeedCap)
        /\ \A j \in 1..Len(feed) : feed[j] = AchievementRecord(log[0][k - j + 1])

\* More than 100 achievement events have been applied.
C10_Witness ==
    /\ Boundary(1)
    /\ Cardinality(iterated) > FeedCap
    /\ Cardinality(processed) > FeedCap

LogMessages == UNION {Range(Msgs(p, 0, Len(log[p]))) : p \in Partitions}

\* The events of the log whose id is in the dedup ledger.
LedgerEvents ==
    IF processed = {} THEN {}
    ELSE {e \in EventsOf(LogMessages) : Has(e, "event_id") /\ e.event_id \in processed}

OfType(S, type) == {e \in S : Has(e, "event_type") /\ e.event_type = type}

\* Every event of the log that names n has all the fields its handler reads.
WellFormedFor(n) ==
    \A m \in LogMessages :
      LET e == EventOf(m) IN
        (Has(e, "player_name") /\ e.player_name = n /\ Has(e, "event_type"))
          => (Required(e.event_type) \cup {"timestamp"}) \subseteq DOMAIN e

\* C3: Checkpoint atomicity.  When the processor was killed between the last
\* process_event of a batch and consumer.commit(), and after the restart has
\* reprocessed the same messages up to consumer.commit() again, leaderboard,
\* stats, feed and ledger are what they were at the kill (which is what the
\* commit without a crash would have left).
C3_CheckpointAtomicity ==
    (/\ crashes # <<>>
     /\ crashes[Len(crashes)].at = "commit"
     /\ AtCommitPoint(1)
     /\ proc[1].position = crashes[Len(crashes)].position
     /\ committed = crashes[Len(crashes)].committed)
    => /\ leaderboard = crashes[Len(crashes)].leaderboard
       /\ stats = crashes[Len(crashes)].stats
       /\ feed = crashes[Len(crashes)].feed
       /\ processed = crashes[Len(crashes)].processed

\* C4: Leaderboard invariant.  For every name whose events are all well
\* formed, the stored score is the sum of the points of the distinct
\* player_scored events applied for that name, in every reachable state.
C4_LeaderboardInvariant ==
    \A n \in Names :
      WellFormedFor(n) =>
        Score(leaderboard, n) = SumPoints({e \in applied : e.player_name = n})

\* C5: Mutate-then-mark.  In every reachable state, crashes included, the
\* store holds every mutation of the handler of every event whose id is in
\* the ledger: the increments at least once each, the fields set, the record
\* in the feed.
C5_MutateThenMark ==
    LET allScored == OfType(LedgerEvents, "player_scored")
        allJoined == OfType(LedgerEvents, "player_joined")
        allAchievements == OfType(LedgerEvents, "achievement_unlocked")
    IN
    /\ \A n \in Names :
         Score(leaderboard, n) >= SumPoints({e \in allScored : e.player_name = n})
    /\ \A pid \in PlayerIds :
         LET scored == {e \in allScored : e.player_id = pid}
             joined == {e \in allJoined : e.player_id = pid}
             h == stats[pid]
         IN  /\ Field(h, "total_score") >= SumPoints(scored)
             /\ Field(h, "events_count") >= Cardinality(scored)
             /\ \A e \in scored :
                  /\ Field(h, "action:" \o ActionOf(e))
                       >= Cardinality({x \in scored : ActionOf(x) = ActionOf(e)})
                  /\ {"player_name", "last_active"} \subseteq DOMAIN h
             /\ Field(h, "games_joined") >= Cardinality(joined)
             /\ joined # {} => {"total_score", "player_name", "last_game"} \subseteq DOMAIN h
    /\ \A e \in allAchievements :
         Len(feed) < FeedCap => AchievementRecord(e) \in Range(feed)

\* After a crash, the ledger holds an event of each handler's kind.
C5_Witness ==
    /\ crashes # <<>>
    /\ \E e \in OfType(LedgerEvents, "player_scored") : TRUE
    /\ \E e \in OfType(LedgerEvents, "achievement_unlocked") : TRUE

\* C6: No commit mid-batch.  The committed offset of a partition covers only
\* messages for which process_event has returned, and while a polled batch is
\* in flight it covers none of that batch's messages, so a crash then
\* redelivers all of them.
C6_NoMidBatchCommit ==
    /\ \A m \in LogMessages : m.offset < committed[m.partition] => m \in iterated
    /\ \A i \in Instances : \A k \in 1..Len(proc[i].batch) :
         committed[proc[i].batch[k].partition] <= proc[i].batch[k].offset

\* After a crash, a batch with messages of both partitions was committed.
C6_Witness ==
    /\ crashes # <<>>
    /\ committed[0] > 0
    /\ committed[1] > 0
    /\ proc[1].pc = "poll"

Quiet(i) == proc[i].pc \in {"off", "poll", "next", "stopped"}

\* C7: Duplicate safety across instances.  Whenever no instance is inside
\* process_event, every score and every total_score is the sum of the points
\* of the distinct player_scored events processed, also when an event was
\* delivered to both instances and processed by them concurrently.
C7_DuplicateSafety ==
    (\A i \in Instances : Quiet(i)) =>
      /\ \A n \in Names :
           Score(leaderboard, n) = SumPoints(EventsOf(ScoredFor(iterated, n)))
      /\ \A pid \in PlayerIds :
           Field(stats[pid], "total_score") = SumPoints(EventsOf(ScoredBy(iterated, pid)))

\* C8: No lost updates.  Whenever neither of two instances applying
\* distinct player_scored events of one player is inside process_event, the
\* score and total_score are the sum of the points of all the events they
\* processed and events_count is their number.
C8_NoLostUpdates ==
    (\A i \in Instances : Quiet(i)) =>
      /\ \A n \in Names :
           Score(leaderboard, n) = MsgPoints(ScoredFor(iterated, n))
      /\ \A pid \in PlayerIds :
           /\ Field(stats[pid], "total_score") = MsgPoints(ScoredBy(iterated, pid))
           /\ Field(stats[pid], "events_count") = Cardinality(ScoredBy(iterated, pid))

\* Both instances are inside handle_player_scored for the same player, each
\* past its zincrby and its total_score increment, and both were counted.
C8_Witness ==
    /\ proc[1].pc = "hincrby_count"
    /\ proc[2].pc = "hincrby_count"
    /\ Cur(1).player_id = Cur(2).player_id
    /\ Cur(1).event_id # Cur(2).event_id
    /\ leaderboard[Cur(1).player_name] = Cur(1).points + Cur(2).points
    /\ stats[Cur(1).player_id].total_score = Cur(1).points + Cur(2).points

\* C11: The achievement feed never exceeds 100 entries, in every reachable
\* state of the store, the states between the store calls of a handler
\* included.
C11_FeedNeverExceeds == Len(feed) <= FeedCap

Valid(e) == Truthy(e, "event_id") /\ Truthy(e, "event_type")

UnknownKind(e) == Valid(e) /\ FirstCall(e.event_type) = "unknown"

\* A known kind whose handler raises KeyError on a missing field.
HandlerError(e) ==
    /\ Valid(e)
    /\ FirstCall(e.event_type) # "unknown"
    /\ ~((Required(e.event_type) \cup {"timestamp"}) \subseteq DOMAIN e)

\* Instance i is about to call process_event for the message it is at.
AtCall(i) == proc[i].pc = "next" /\ proc[i].idx <= Len(proc[i].batch)

\* The step returns False for the current message and moves to the next
\* message (or to consumer.commit) with the store and the ledger as they were.
RejectsUnchanged(i) ==
    /\ proc'[i].pc = "next"
    /\ proc'[i].idx = proc[i].idx + 1
    /\ proc'[i].ret = "false"
    /\ store' = store

AllCommitted ==
    /\ \A p \in Partitions : committed[p] = Len(log[p])
    /\ LogMessages \subseteq iterated

\* C12: Unknown-kind resilience.  process_event returns False for an event of
\* an unknown event_type in one step that changes neither the aggregates nor
\* the ledger, the loop does not stop, and every message of the log, the ones
\* after the unknown event included, is eventually processed and committed.
C12_UnknownKindResilience ==
    /\ [][(AtCall(1) /\ UnknownKind(Cur(1))) => RejectsUnchanged(1)]_vars
    /\ [](proc[1].pc # "stopped")
    /\ <>[]AllCommitted

\* An unknown event was rejected, the well-formed event after it was applied
\* and marked, and their batches are committed.
C12_Witness ==
    /\ \E k \in 1..Len(log[0]) :
         /\ log[0][k] = EUnknown
         /\ \E j \in (k + 1)..Len(log[0]) : log[0][j] = E1
    /\ AllCommitted
    /\ processed = {E1.event_id}
    /\ Score(leaderboard, "NightHawk") = E1.points

\* C13: Invalid-event validation.  process_event returns False for an event
\* without event_id or event_type before anything else: the only step it
\* takes moves to the next message with leaderboard, stats, feed and ledger
\* unchanged, no handler is entered, and no ledger call is made (none can
\* raise).
C13_InvalidEventRejected ==
    [][(AtCall(1) /\ ~Valid(Cur(1))) => RejectsUnchanged(1)]_vars

\* An event without event_id or event_type has just been rejected while the
\* ledger holds the id of an event applied before it.
C13_Witness ==
    /\ proc[1].pc = "next"
    /\ proc[1].idx > 1
    /\ ~Valid(EventOf(proc[1].batch[proc[1].idx - 1]))
    /\ proc[1].ret = "false"
    /\ processed # {}

\* The offsets a log of SpecErr can have.
Offsets == 0..MaxErrLog

\* C14: HandlerError is permanent.  For an event of a known kind that lacks a
\* field its handler reads, process_event returns False and the id never
\* enters the ledger; the loop goes on (it never stops, and no message is
\* passed to process_event twice), and the batch holding the event is
\* eventually committed, after which the event is not delivered again.
C14_HandlerErrorPermanent ==
    /\ [](\A m \in LogMessages :
            HandlerError(EventOf(m)) => EventOf(m).event_id \notin processed)
    /\ [][(AtCall(1) /\ HandlerError(Cur(1)) /\ ~(Required(Cur(1).event_type) \subseteq DOMAIN Cur(1)))
            => (proc'[1].pc = "next" /\ proc'[1].ret = "false")]_vars
    /\ [](proc[1].pc # "stopped")
    /\ [](AtCall(1) => proc[1].batch[proc[1].idx] \notin iterated)
    /\ \A k \in Offsets :
         (k < Len(log[0]) /\ HandlerError(log[0][k + 1]))
           ~> [](committed[0] > k /\ proc[1].position[0] > k
                 /\ [partition |-> 0, offset |-> k] \in iterated)

\* Both kinds of handler error were processed, the well-formed event after
\* them was applied, and everything is committed with only that event's id in
\* the ledger.
C14_Witness ==
    /\ log[0] = <<ENoPoints, EBad, E1>>
    /\ AllCommitted
    /\ processed = {E1.event_id}

\* C15: Per-event failures are never thrown out of Processing.  Whatever
\* happens while one message is processed, a failing ledger or store call
\* included, the loop does not end before every message of the batch has
\* been passed to process_event and consumer.commit() has been reached.
C15_FailuresNotThrown ==
    \A i \in Instances :
      proc[i].pc = "stopped" => proc[i].idx > Len(proc[i].batch)

\* C16: StoreUnavailable withholds the commit.  No message during whose
\* handling a store call raised is covered by a committed offset unless its
\* event has been applied and its id is in the ledger.
C16_StoreFailureWithholdsCommit ==
    \A m \in failed :
      m.offset < committed[m.partition] =>
        /\ EventOf(m).event_id \in processed
        /\ IsScored(EventOf(m)) => EventOf(m) \in applied

\* C17: Commit failure is retried, never dropped.  The loop never ends
\* holding a batch it has processed and whose offsets it has not committed.
C17_CommitFailureRetried ==
    \A i \in Instances :
      ~(/\ proc[i].pc = "stopped"
        /\ proc[i].batch # <<>>
        /\ proc[i].idx > Len(proc[i].batch)
        /\ \E k \in 1..Len(proc[i].batch) :
             committed[proc[i].batch[k].partition] <= proc[i].batch[k].offset)

\* C18: The loop leaves the poll/process/commit cycle only on a shutdown
\* signal: whenever run_processor has ended, the signal handler has cleared
\* the running flag.
C18_StopsOnlyOnSignal ==
    \A i \in Instances : proc[i].pc = "stopped" => ~proc[i].running

\* Instance i starts a consumer.poll call in this step.
StartsPoll(i) == proc[i].pc = "call_poll" /\ proc'[i].pc # "call_poll"

\* Everything instance i has polled is processed and committed.
Drained(i) ==
    /\ proc[i].idx > Len(proc[i].batch)
    /\ \A p \in Partitions : owner[p] = i => committed[p] = proc[i].position[p]
    /\ \A m \in LogMessages :
         (owner[m.partition] = i /\ m.offset < proc[i].position[m.partition])
           => m \in iterated

\* C19: Draining.  Once the signal handler has cleared the flag no poll is
\* started, and when the loop has stopped every message of the batch that
\* was in flight has been processed and the batch committed.
C19_Draining ==
    /\ [][\A i \in Instances : ~proc[i].running => ~StartsPoll(i)]_vars
    /\ [](\A i \in Instances : proc[i].pc = "stopped" => Drained(i))

\* C19 as the code has it: once the flag is cleared the test of "while
\* running" lets no further iteration begin, so at most the one poll whose
\* test had already passed is still called (and its batch is processed and
\* committed like any other); when the loop has stopped every message polled
\* has been processed and its batch committed.
C19_DrainingAtLoopTest ==
    /\ [][\A i \in Instances :
            (~proc[i].running /\ proc[i].pc = "poll") => proc'[i].pc \in {"poll", "stopped"}]_vars
    /\ [][\A i \in Instances :
            (~proc[i].running /\ StartsPoll(i)) => proc[i].caught = "call_poll"]_vars
    /\ [](\A i \in Instances : proc[i].pc = "stopped" => Drained(i))

\* The signal arrived inside a handler, in the middle of a batch of two
\* messages; the loop has stopped with that batch committed and the rest of
\* the log not polled.
C19_Witness ==
    /\ proc[1].pc = "stopped"
    /\ proc[1].caught \in HandlerPcs
    /\ committed[0] = 2
    /\ Len(log[0]) = 3
    /\ Cardinality(processed) = 2

\* C20: Within one partition events are processed in log order.  Whenever an
\* instance is at or inside process_event for a message, process_event has
\* returned for exactly the messages of that partition with a lower offset:
\* for all of them, and for none with a higher offset, within a batch and
\* across consecutive batches.
C20_LogOrder ==
    \A i \in Instances :
      (proc[i].pc # "off" /\ proc[i].idx <= Len(proc[i].batch)) =>
        LET m == proc[i].batch[proc[i].idx] IN
          \A m2 \in LogMessages :
            m2.partition = m.partition => (m2 \in iterated <=> m2.offset < m.offset)

\* Instance 1 is inside process_event for offset 1 of its partition, which
\* it polled in a batch of its own after the batch with offset 0, while
\* instance 2 is inside process_event for a message of the other partition.
C20_Witness ==
    /\ proc[1].pc = "zincrby"
    /\ proc[1].batch = <<[partition |-> 0, offset |-> 1]>>
    /\ [partition |-> 0, offset |-> 0] \in iterated
    /\ proc[2].pc \in HandlerPcs
    /\ proc[2].batch[proc[2].idx].partition = 1

RECURSIVE WindowPoints(_, _)
\* The points of the events of name n whose handling a crash cut between
\* the zincrby and the mark, each crash counted.
WindowPoints(k, n) ==
    IF k = 0 THEN 0
    ELSE WindowPoints(k - 1, n)
           + (IF crashes[k].at = "window" /\ crashes[k].event.player_name = n
                THEN crashes[k].event.points ELSE 0)

WellFormed(e) ==
    /\ Valid(e)
    /\ FirstCall(e.event_type) # "unknown"
    /\ (Required(e.event_type) \cup {"timestamp"}) \subseteq DOMAIN e

\* C22: No silent loss across crashes.  With store calls that succeed and
\* crashes at any point, every well-formed event of a known kind whose offset
\* is below its partition's committed offset has its id in the ledger.
C22_NoSilentLoss ==
    \A m \in LogMessages :
      (m.offset < committed[m.partition] /\ WellFormed(EventOf(m)))
        => EventOf(m).event_id \in processed

\* After a crash, both partitions are committed past a well-formed event.
C22_Witness ==
    /\ crashes # <<>>
    /\ \A p \in Partitions :
         /\ Len(log[p]) = 1
         /\ WellFormed(log[p][1])
         /\ committed[p] = 1

AllMarked ==
    \A m \in LogMessages : WellFormed(EventOf(m)) => EventOf(m).event_id \in processed

\* C23: Progress.  Under weak fairness of the loop's steps, with calls that
\* return, finitely many crashes each followed by a restart from the last
\* commit and no shutdown signal, every event of a partition is eventually
\* covered by the partition's committed offset and every well-formed event of
\* a known kind eventually has its id in the ledger, for good.
C23_Progress ==
    /\ <>[](\A p \in Partitions : committed[p] = Len(log[p]))
    /\ <>[]AllMarked

\* After a crash in the double-apply window, a log with a well-formed event
\* and a rejected one is committed to its end with the well-formed event's id
\* in the ledger.
C23_Witness ==
    /\ Len(crashes) = 1
    /\ crashes[1].at = "window"
    /\ Len(log[0]) = 2
    /\ E1 \in Range(log[0])
    /\ Range(log[0]) \cap {EBad, EUnknown} # {}
    /\ committed[0] = 2
    /\ AllMarked

\* C24: A failed event leaves the aggregates untouched.  Between
\* process_event calls of a crash-free instance, leaderboard and stats hold
\* only what the events process_event returned True for (the ones in the
\* ledger) put there; an event it returned False for changed nothing.
C24_FailedEventNoEffect ==
    Boundary(1) =>
      LET allScored == OfType(LedgerEvents, "player_scored") IN
        /\ \A n \in Names :
             Score(leaderboard, n) = SumPoints({e \in allScored : e.player_name = n})
        /\ \A pid \in PlayerIds :
             LET scored == {e \in allScored : e.player_id = pid} IN
               /\ Field(stats[pid], "total_score") = SumPoints(scored)
               /\ Field(stats[pid], "events_count") = Cardinality(scored)
               /\ scored = {} => stats[pid] = <<>>
        /\ feed = <<>>

\* C25: A duplicate is skipped without effect.  For an event with an
\* event_type whose event_id is in the ledger, whatever its kind and payload,
\* the only step process_event takes returns True and moves to the next
\* message: no handler is entered, and leaderboard, stats, feed and ledger
\* are unchanged.
C25_DuplicateSkipped ==
    [][(AtCall(1) /\ Valid(Cur(1)) /\ Cur(1).event_id \in processed)
         => /\ proc'[1].pc = "next"
            /\ proc'[1].idx = proc[1].idx + 1
            /\ proc'[1].ret = "true"
            /\ store' = store]_vars

\* An event of unknown kind carrying the id of an applied event has just
\* been skipped as a duplicate.
C25_Witness ==
    /\ proc[1].pc = "next"
    /\ proc[1].idx > 1
    /\ EventOf(proc[1].batch[proc[1].idx - 1]) = EDupUnknown
    /\ proc[1].ret = "true"
    /\ processed = {1}
    /\ leaderboard = ("NightHawk" :> 100)

AppliedSinceObservation(e) ==
    /\ observed # <<>>
    /\ Boundary(1)
    /\ \E m \in Since : Since = {m} /\ EventOf(m) = e
    /\ e.event_id \notin observed[1].processed
    /\ e.event_id \in processed

\* Hash h is hash old with the fields of new set to new's values.
Overwritten(h, old, new) ==
    /\ DOMAIN h = DOMAIN old \cup DOMAIN new
    /\ \A f \in DOMAIN h : h[f] = IF f \in DOMAIN new THEN new[f] ELSE old[f]

\* C26: Scored handler effect.  A player_scored event applied since an
\* observation has increased leaderboard[player_name], total_score (by
\* points), events_count and action:<action> (by 1), has set player_name and
\* last_active to its values and has changed nothing else: no other member of
\* the leaderboard, no other field, no other player's stats, not the feed;
\* and the zrevrank step changes no state.
C26_ScoredEffect ==
    /\ [](\A e \in OfType(Universe, "player_scored") :
            AppliedSinceObservation(e) =>
              LET was == observed[1]
                  old == was.stats[e.player_id]
              IN  /\ Overwritten(leaderboard, was.leaderboard,
                        e.player_name :> (Score(was.leaderboard, e.player_name) + e.points))
                  /\ Overwritten(stats[e.player_id], old,
                        [total_score |-> Field(old, "total_score") + e.points,
                         events_count |-> Field(old, "events_count") + 1,
                         player_name |-> e.player_name,
                         last_active |-> e.timestamp]
                        @@ (("action:" \o e.action) :> (Field(old, "action:" \o e.action) + 1)))
                  /\ \A pid \in PlayerIds \ {e.player_id} : stats[pid] = was.stats[pid]
                  /\ feed = was.feed)
    /\ [][proc[1].pc = "zrevrank" => store' = store]_vars

\* A player_scored event was applied after an observation that already saw a
\* score and stats of its player and of another one.
C26_Witness ==
    /\ AppliedSinceObservation(E2)
    /\ Score(observed[1].leaderboard, "NightHawk") > 0
    /\ Score(observed[1].leaderboard, "ShadowBlade") > 0
    /\ leaderboard["NightHawk"] = 150

\* C27: Joined handler effect.  A player_joined event applied since an
\* observation has increased games_joined by 1, has set player_name and
\* last_game to its values, has created total_score = 0 only where it was
\* absent, and has changed nothing else: no other field or player, and
\* neither the leaderboard (a player who has only joined is not a member of
\* it) nor the feed.
C27_JoinedEffect ==
    \A e \in OfType(Universe, "player_joined") :
      AppliedSinceObservation(e) =>
        LET was == observed[1]
            old == was.stats[e.player_id]
        IN  /\ Overwritten(stats[e.player_id], old,
                  [total_score |-> Field(old, "total_score"),
                   games_joined |-> Field(old, "games_joined") + 1,
                   player_name |-> e.player_name,
                   last_game |-> e.game_id])
            /\ \A pid \in PlayerIds \ {e.player_id} : stats[pid] = was.stats[pid]
            /\ leaderboard = was.leaderboard
            /\ feed = was.feed
            /\ (was.stats[e.player_id] = <<>> /\ e.player_name \notin DOMAIN was.leaderboard)
                 => e.player_name \notin DOMAIN leaderboard

\* A player_joined event of a player without a record was applied after an
\* observation that already saw another player's score.
C27_Witness ==
    /\ AppliedSinceObservation(E3)
    /\ observed[1].stats["player_001"] = <<>>
    /\ Score(observed[1].leaderboard, "ShadowBlade") > 0
    /\ stats["player_001"].total_score = 0
    /\ "NightHawk" \notin DOMAIN leaderboard

\* C29: Shutdown terminates.  Once the signal handler has cleared the flag,
\* with a pending poll that returns and store and commit calls that return,
\* the loop eventually exits, and when run_processor has returned the
\* consumer and the store client are closed.
C29_ShutdownTerminates ==
    /\ (~proc[1].running) ~> (proc[1].pc = "stopped" /\ proc[1].open = {})
    /\ [](proc[1].pc = "stopped" => proc[1].open = {})
    /\ [](proc[1].pc # "stopped" => proc[1].open = {"consumer", "redis_client"})

\* The signal arrived while the poll was pending; the poll returned the one
\* message of the log, which was processed and committed, and run_processor
\* has returned with both connections closed.
C29_Witness ==
    /\ proc[1].pc = "stopped"
    /\ proc[1].open = {}
    /\ proc[1].caught = "call_poll"
    /\ Len(log[0]) = 1
    /\ committed[0] = 1
    /\ Cardinality(processed) = 1

\* The poll of instance i returns no message.
EmptyPoll(i) == proc[i].pc = "call_poll" /\ proc'[i].pc # "call_poll" /\ proc'[i].batch = <<>>

\* C30: Empty poll.  When poll returns no messages the loop goes straight
\* back to the loop test: no offset is committed, the ledger and the store
\* are not touched, no message is handed to process_event, the event counter
\* is unchanged, and the next poll is called only after the flag was tested
\* again (with the flag cleared the loop is left instead).
C30_EmptyPoll ==
    /\ [][EmptyPoll(1) =>
            /\ proc'[1].pc = "poll"
            /\ committed' = committed
            /\ store' = store
            /\ applied' = applied
            /\ iterated' = iterated
            /\ events_processed(1)' = events_processed(1)]_vars
    /\ [][(proc[1].pc = "poll" /\ proc'[1].pc # "poll") =>
            proc'[1].pc = (IF proc[1].running THEN "call_poll" ELSE "stopped")]_vars
    /\ [][(proc'[1].pc = "call_poll" /\ proc[1].pc # "call_poll") =>
            (proc[1].pc = "poll" /\ proc[1].running)]_vars

\* The signal arrived while the poll was pending on a log that had a message
\* the poll did not return; the empty result led back to the loop test,
\* which ended the loop with nothing processed and nothing committed.
C30_Witness ==
    /\ proc[1].pc = "stopped"
    /\ proc[1].caught = "call_poll"
    /\ Len(log[0]) > 0
    /\ iterated = {}
    /\ committed[0] = 0
    /\ events_processed(1) = 0

\* C31: the periodic leaderboard snapshot has no effect on the loop's state
\* transitions.  It is entered only from the commit of a batch, with every
\* polled offset committed; the step that ends it changes neither the
\* leaderboard, the stats, the feed, the ledger nor the committed offsets;
\* and whether its read of the store returns or raises, the loop is back at
\* its poll afterwards.
C31_SnapshotNoEffect ==
    /\ [][(proc'[1].pc = "display" /\ proc[1].pc # "display") =>
            (AtCommitPoint(1) /\ committed'[0] = proc[1].position[0])]_vars
    /\ [][proc[1].pc = "display" =>
            (store' = store /\ committed' = committed /\ proc'[1].pc \in {"display", "poll"})]_vars

\* process_event returns for the current message of instance i.
Returns(i) == AtCall(i) \/ proc[i].pc \in HandlerPcs \cup {"mark"}

\* The id of event e is in ledger l (an event without event_id has none).
Ledgered(e, l) == Has(e, "event_id") /\ e.event_id \in l

\* C32: process_event's result reflects the ledger.  Whenever process_event
\* returns, for every event and every prior state, it returns True exactly
\* when the event's id is in the dedup ledger on return, and False exactly
\* when it is not.
C32_ResultReflectsLedger ==
    [][(Returns(1) /\ proc'[1].idx = proc[1].idx + 1)
         => (proc'[1].ret = "true" <=> Ledgered(Cur(1), processed'))]_vars

\* C32 as it holds: a True result means the id is in the ledger on return,
\* and a False result for an event that has an event_id and an event_type
\* means it is not; an event rejected by the validation returns False without
\* the ledger being looked at, whether or not it holds the id.
C32_ResultReflectsLedgerIfValid ==
    [][(Returns(1) /\ proc'[1].idx = proc[1].idx + 1)
         => /\ proc'[1].ret \in {"true", "false"}
            /\ proc'[1].ret = "true" => Ledgered(Cur(1), processed')
            /\ (proc'[1].ret = "false" /\ Valid(Cur(1))) => ~Ledgered(Cur(1), processed')
            /\ ~Valid(Cur(1)) => (proc'[1].ret = "false" /\ processed' = processed)]_vars

\* After E1 was applied and marked, the event whose handler raised has
\* returned False and its id is not in the ledger.
C32_Witness ==
    /\ proc[1].pc = "next"
    /\ proc[1].idx > 1
    /\ EventOf(proc[1].batch[proc[1].idx - 1]) = EBad
    /\ proc[1].ret = "false"
    /\ processed = {1}

\* The name the events of player pid carry (each player_id of the log has one
\* name, which no other player_id uses).
NameOf(pid) == IF pid = "player_001" THEN "NightHawk" ELSE "ShadowBlade"

\* The leaderboard score of pid's name equals total_score of pid's stats, or
\* the name is not in the leaderboard and total_score is 0 or absent.
Agrees(pid) == Score(leaderboard, NameOf(pid)) = Field(stats[pid], "total_score")

\* A store call raised while an event of player pid was handled.
StoreFailedFor(pid) ==
    \E m \in failed : Has(EventOf(m), "player_id") /\ EventOf(m).player_id = pid

LeaderboardReturned == request.pc = "zcard" /\ request'.pc = "done"

\* C36: Top-N leaderboard read.  For every integer top, 0 and negative values
\* included, and every leaderboard content, get_leaderboard(top) returns at
\* most min(top, 100) entries (none when that is not positive), ordered by
\* descending score, the i-th of them with rank i, and total_players is the
\* number of leaderboard members.
C36_TopNRead ==
    [][LeaderboardReturned =>
         LET r == request'.response
             n == Len(r.top_players)
         IN  /\ n <= Min(request.top, 100) \/ n = 0
             /\ \A i \in 1..n : r.top_players[i].rank = i
             /\ \A i \in 1..n, j \in 1..n :
                  i < j => r.top_players[i].score >= r.top_players[j].score
             /\ r.total_players = Cardinality(DOMAIN leaderboard)]_vars

\* The rank of a name as the claim derives it: 1 plus the number of members
\* ordered above it, or None for a name that is no member.
DerivedRank(z, name) ==
    IF name \in DOMAIN z
      THEN Some(1 + Cardinality({n \in DOMAIN z \ {name} : Above(z, n, name)}))
      ELSE None

\* C37: Player read with derived rank.  fetch_player_stats(player_id) returns
\* None exactly when no stats record exists for the id when it is read;
\* otherwise it returns the record's total_score, events_count and
\* games_joined (0 for an absent field) and a rank equal to 1 plus the number
\* of leaderboard members ordered above the record's player_name, or None
\* when that name is not in the leaderboard; no step of the read changes the
\* store, the ledger or the committed offsets.
C37_PlayerRead ==
    /\ [][(request.pc = "hgetall" /\ request' # request) =>
            /\ (request'.pc = "done" /\ request'.response = None)
                 <=> (\A pid \in PlayerIds : request.player_id = pid => stats[pid] = <<>>)
            /\ request'.pc = "zrevrank" => request'.stats = stats[request.player_id]
            /\ store' = store /\ committed' = committed]_vars
    /\ [][(request.pc = "zrevrank" /\ request' # request) =>
            LET h == request.stats
                r == request'.response[1]
            IN  /\ request'.pc = "done"
                /\ Len(request'.response) = 1
                /\ r.total_score = (IF "total_score" \in DOMAIN h THEN h.total_score ELSE 0)
                /\ r.events_count = (IF "events_count" \in DOMAIN h THEN h.events_count ELSE 0)
                /\ r.games_joined = (IF "games_joined" \in DOMAIN h THEN h.games_joined ELSE 0)
                /\ "player_name" \in DOMAIN h =>
                     (r.player_name = h.player_name
                        /\ r.rank = DerivedRank(leaderboard, h.player_name))
                /\ store' = store /\ committed' = committed]_vars

\* The stats of player_001 were read when NightHawk had 100 points and the
\* rank after ShadowBlade had passed NightHawk: the read returned total_score
\* 100 and rank 2.
C37_Witness ==
    /\ request.pc = "done"
    /\ request.op = "fetch_player_stats"
    /\ request.player_id = "player_001"
    /\ request.response # None
    /\ request.response[1].total_score = 100
    /\ request.response[1].rank = Some(2)
    /\ request.response[1].events_count = 1

\* No connection is twice in active_connections.
NoDuplicates ==
    \A i \in 1..Len(active_connections), j \in 1..Len(active_connections) :
      i # j => active_connections[i] # active_connections[j]

\* manager.broadcast ends with this step (it returns or raises).
BroadcastEnds == broadcaster.pc = "send" /\ broadcaster'.pc = "sleep"

\* Connection c was in the list when the broadcast began, its client is
\* still there when the broadcast ends and no disconnect has removed it.
StayedConnected(c) ==
    /\ c \in Range(broadcaster.audience)
    /\ websockets'[c].peer = "open"
    /\ websockets'[c].pc \in {"initial", "receive"}

\* C34: ConnectionManager list safety.  For every interleaving of broadcast,
\* which suspends at each send_text, with connect and with disconnect called
\* by the websocket handlers: no removal is attempted for a connection that
\* is not in active_connections (neither broadcast's cleanup nor disconnect
\* raises), each connection is at most once in the list, and every
\* connection that stays connected during a broadcast is sent the message.
C34_ListSafety ==
    /\ [](raised = {})
    /\ []NoDuplicates
    /\ [][BroadcastEnds =>
            \A c \in Conns :
              StayedConnected(c) => <<c, broadcaster.leaderboard>> \in sent']_vars

\* What a leaderboard_update tells about the leaderboard: the top players
\* with their scores and ranks, and the player count.
Content(m) == <<m.top_players, m.total_players>>

\* The leaderboards broadcast before the one of the current cycle.
Earlier == {x[2] : x \in sent} \ {broadcaster.leaderboard}

LastBroadcast == CHOOSE m \in Earlier : \A o \in Earlier : o.updated_at <= m.updated_at

\* C35: the broadcaster only broadcasts if something changed.  A
\* leaderboard_update is sent to a client only when the leaderboard read in
\* the cycle (top players, scores, player count) differs from the one last
\* broadcast, so that a cycle after which the store has not changed
\* broadcasts nothing.
C35_BroadcastOnlyIfChanged ==
    [][sent' # sent =>
         (Earlier = {} \/ Content(broadcaster.leaderboard) # Content(LastBroadcast))]_vars

====
